---- MODULE Spec2Model ----
(***************************************************************************)
(* Model of the fractal agent runtime: BaseAgent.run (the execution loop), *)
(* AgentToolkit.execute_tool / register_delegate.agent_caller (the tool    *)
(* registry and delegation) and TracingKit (the trace recorder).           *)
(*                                                                         *)
(* One activation of run() is a frame.  A step of the model is the code a  *)
(* coroutine executes between two suspension points (the awaited model     *)
(* call, the awaited asyncio.gather, an awaited asynchronous tool body).   *)
(***************************************************************************)
EXTENDS Integers, Sequences, FiniteSets, TLC

VARIABLES
    messages,    \* agent -> self.messages (conversation history)
    tracing,     \* agent -> self.tracing (a recorder id, or None)
    rec,         \* recorder id -> TracingKit state
    toolkit,     \* agent -> names in toolkit._tools (the registry)
    flags,       \* agent -> toolkit._tool_terminate (name -> flag)
    schemas,     \* agent -> names in toolkit._tool_schemas
    stored,      \* agent -> what _tools and _tool_schemas hold under each name
    outcome,     \* what the last direct call on A0 or its registry handed to its caller
    context_window, \* agent -> BaseAgent.context_window
    system_context, \* agent -> BaseAgent.system_context
    frames,      \* frame id -> locals of one activation of run()
    result,      \* what the top-level run() handed to its caller
    idCtr,       \* tool-call ids issued by the model so far
    runCtr,      \* run ids generated by start_run so far
    callsLeft,   \* model calls the environment may still answer
    faultsLeft,  \* failed or degenerate model calls the environment may still produce
    badLeft      \* ill-formed tool-call requests the model may still produce

vars == <<messages, tracing, rec, toolkit, flags, schemas, stored, outcome, context_window,
          system_context, frames, result, idCtr, runCtr, callsLeft, faultsLeft, badLeft>>

\* What run() and the recorder never write.
registry == <<toolkit, flags, schemas, stored, outcome, context_window, system_context>>

----------------------------------------------------------------------------
(* Bounds of the model *)

MaxBatch == 2
MaxCalls == 3
MaxFaults == 2
MaxBad == 1
MaxToolCalls == 3
MaxDelegCalls == 7
MaxDelegFaults == 3
MaxIter == 2
MaxRetry == 2
MaxEvents == 3
MaxRuns == 2
MaxHistory == 5        \* messages in the history given to _prepare_messages
MaxSeq == 4            \* messages in a sequence given to _group_messages

(* Program constants *)

DefaultMaxIterations == 10
DefaultMaxRetries == 3
ResponseReserve == 4096

----------------------------------------------------------------------------
(* Names *)

None == "None"
NoRun == 0
NoId == 0

Agents == {"A0", "A1", "A2"}
RecIds == {"K0"}
Root == << >>

\* The agent whose run() a delegate tool invokes (register_delegate's `agent`).
DelegateOf(t) ==
    CASE t = "ask_1" -> "A1"
      [] t = "ask_2" -> "A2"
      [] OTHER -> None

IsDelegate(t) == DelegateOf(t) # None

----------------------------------------------------------------------------
(* TracingKit *)

\* pattern: the output_file argument (None, a plain path, or a path with the
\* {run_id} placeholder); output_file: the path resolved for the current run.
NewRecorder ==
    [events |-> << >>, stack |-> << >>, starts |-> {}, depth |-> 0,
     parent |-> None, run_id |-> NoRun, pattern |-> None, output_file |-> <<None>>]

FilePatterns == {None, "plain", "per_run"}

\* Lines 145-154 of start_run: the placeholder is replaced by the run id.
ResolvePath(pattern, id) ==
    CASE pattern = None -> <<None>>
      [] pattern = "per_run" -> <<"trace", id>>
      [] OTHER -> <<"trace">>

Event(type, agent, parent, depth) ==
    [type |-> type, agent |-> agent, run_id |-> NoRun, parent |-> parent,
     depth |-> depth, tool |-> None, call_id |-> NoId, to |-> None,
     elapsed |-> FALSE, success |-> TRUE]

\* _add_event: stamp the current run id, append.
AddEvent(r, ev) ==
    [r EXCEPT !.events = Append(@, [ev EXCEPT !.run_id = r.run_id])]

\* A start_run() that forgets the call-id side table and the delegation
\* cursor.
StartRunKeepingCursor(r, id) ==
    [r EXCEPT !.events = << >>, !.stack = << >>, !.run_id = id,
              !.output_file = ResolvePath(r.pattern, id)]

\* start_run(): clear the per-run state, take a fresh run id.
StartRun(r, id) ==
    [r EXCEPT !.events = << >>, !.stack = << >>, !.starts = {},
              !.depth = 0, !.parent = None, !.run_id = id,
              !.output_file = ResolvePath(r.pattern, id)]

\* An end_run() that also resets the in-memory trace.
EndRunClearing(r) == [r EXCEPT !.run_id = NoRun, !.events = << >>]

\* end_run(): only the run id is cleared.
EndRun(r) == [r EXCEPT !.run_id = NoRun]

TopIs(r, type) == Len(r.stack) > 0 /\ r.stack[Len(r.stack)].type = type

Pop(s) == SubSeq(s, 1, Len(s) - 1)

StartAgent(r, name) ==
    LET r1 == [r EXCEPT !.stack = Append(@, [type |-> "agent", name |-> name, to |-> None])]
    IN  AddEvent(r1, Event("agent_start", name, r1.parent, r1.depth))

EndAgent(r, name, success) ==
    LET popped == TopIs(r, "agent")
        r1 == IF popped THEN [r EXCEPT !.stack = Pop(@)] ELSE r
    IN  AddEvent(r1, [Event("agent_end", name, r1.parent, r1.depth)
                        EXCEPT !.elapsed = popped, !.success = success])

StartToolCall(r, agent, tool, id) ==
    LET r1 == IF id # NoId
              THEN [r EXCEPT !.starts = @ \cup {id}]
              ELSE [r EXCEPT !.stack = Append(@, [type |-> "tool", name |-> tool, to |-> None])]
    IN  AddEvent(r1, [Event("tool_call", agent, r1.parent, r1.depth)
                        EXCEPT !.tool = tool, !.call_id = id])

\* An end_tool_call() that looks at the operation stack before the call-id
\* side table.
EndToolCallStackFirst(r, agent, tool, id, failed) ==
    LET byStack == TopIs(r, "tool")
        byId == ~byStack /\ id # NoId /\ id \in r.starts
        r1 == IF byId THEN [r EXCEPT !.starts = @ \ {id}]
              ELSE IF byStack THEN [r EXCEPT !.stack = Pop(@)]
              ELSE r
    IN  AddEvent(r1, [Event("tool_result", agent, r1.parent, r1.depth)
                        EXCEPT !.tool = tool, !.call_id = id,
                               !.elapsed = (byId \/ byStack), !.success = ~failed])

EndToolCall(r, agent, tool, id, failed) ==
    LET byId == id # NoId /\ id \in r.starts
        byStack == ~byId /\ TopIs(r, "tool")
        r1 == IF byId THEN [r EXCEPT !.starts = @ \ {id}]
              ELSE IF byStack THEN [r EXCEPT !.stack = Pop(@)]
              ELSE r
    IN  AddEvent(r1, [Event("tool_result", agent, r1.parent, r1.depth)
                        EXCEPT !.tool = tool, !.call_id = id,
                               !.elapsed = (byId \/ byStack), !.success = ~failed])

RecordError(r, agent) ==
    AddEvent(r, [Event("error", agent, r.parent, r.depth) EXCEPT !.success = FALSE])

\* The parent recorded on an agent_delegate event (tracing.py line 399).
DelegateEventParent(r) == IF r.depth > 1 THEN r.parent ELSE None

StartDelegation(r, from, to) ==
    LET r1 == [r EXCEPT !.stack = Append(@, [type |-> "delegation", name |-> from, to |-> to]),
                        !.depth = @ + 1,
                        !.parent = from]
    IN  AddEvent(r1, [Event("agent_delegate", from, DelegateEventParent(r1), r1.depth - 1)
                        EXCEPT !.to = to])

\* Nearest enclosing agent frame of the stack, walking from the top.
RECURSIVE NearestAgent(_, _)
NearestAgent(s, dflt) ==
    IF Len(s) = 0 THEN dflt
    ELSE IF s[Len(s)].type = "agent" THEN s[Len(s)].name
    ELSE NearestAgent(Pop(s), dflt)

Max(a, b) == IF a >= b THEN a ELSE b

EndDelegation(r, from, to, success) ==
    LET popped == TopIs(r, "delegation")
        r1 == IF popped THEN [r EXCEPT !.stack = Pop(@)] ELSE r
        r2 == [r1 EXCEPT !.depth = Max(0, @ - 1)]
        r3 == IF r2.depth > 0 /\ Len(r2.stack) > 0
              THEN [r2 EXCEPT !.parent = NearestAgent(r2.stack, r2.parent)]
              ELSE [r2 EXCEPT !.parent = None]
    IN  AddEvent(r3, [Event("delegation_end", from, r3.parent, r3.depth)
                        EXCEPT !.to = to, !.elapsed = popped, !.success = success])

----------------------------------------------------------------------------
(* Tools registered on the agents (fixtures in the style of the test agents) *)

\* returns: the value the tool body returns, or "raise" when it throws.
\* <<"str", x>> is a string, <<"dict", x>> a JSON-serialisable mapping,
\* <<"baddict", x>> a mapping holding a value json.dumps rejects,
\* <<"none", "">> is None (the body ends without a return statement).
ToolDef(t) ==
    CASE t = "t_ok"    -> [async |-> FALSE, terminate |-> FALSE, returns |-> <<"str", "ok">>]
      [] t = "t_slow"  -> [async |-> TRUE,  terminate |-> FALSE, returns |-> <<"dict", "slow">>]
      [] t = "t_bad"   -> [async |-> FALSE, terminate |-> FALSE, returns |-> <<"raise", "boom">>]
      [] t = "t_dict"  -> [async |-> FALSE, terminate |-> FALSE, returns |-> <<"baddict", "when">>]
      [] t = "fin"     -> [async |-> FALSE, terminate |-> TRUE,  returns |-> <<"dict", "fin">>]
      [] t = "fin2"    -> [async |-> TRUE,  terminate |-> TRUE,  returns |-> <<"str", "fin2">>]
      [] t = "fin_bad" -> [async |-> FALSE, terminate |-> TRUE,  returns |-> <<"raise", "boom">>]
      [] t = "t_none"  -> [async |-> FALSE, terminate |-> FALSE, returns |-> <<"none", "">>]
      [] t = "f_tuple" -> [async |-> FALSE, terminate |-> TRUE,  returns |-> <<"str", "ran">>]
      [] t = "f_nodoc" -> [async |-> FALSE, terminate |-> FALSE, returns |-> <<"str", "ran">>]
      [] t = "f_named" -> [async |-> FALSE, terminate |-> FALSE, returns |-> <<"str", "ran">>]
      [] OTHER         -> [async |-> TRUE,  terminate |-> FALSE, returns |-> <<"str", "delegated">>]

PlainTools == {"t_ok", "t_bad", "t_dict", "fin", "fin2", "fin_bad"}

\* What _validate_tool_function looks at: whether the function has a
\* docstring and whether every annotated parameter has a supported base type.
\* f_tuple takes a tuple and is documented, f_nodoc takes a tuple and has no
\* docstring.
Signature(t) ==
    CASE t = "f_tuple" -> [documented |-> TRUE,  supported |-> FALSE]
      [] t = "f_nodoc" -> [documented |-> FALSE, supported |-> FALSE]
      [] OTHER         -> [documented |-> TRUE,  supported |-> TRUE]

\* _validate_tool_function raises TypeError: the docstring check returns
\* first, the annotations are looked at only when there is a docstring.
ValidationRaises(t) == Signature(t).documented /\ ~Signature(t).supported

----------------------------------------------------------------------------
(* AgentToolkit.execute_tool *)

ToolResult(content, error, meta) ==
    [kind |-> "result", content |-> content, error |-> error, meta |-> meta]

\* An exception asyncio.gather collected instead of a ToolResult.
GatherException(msg) ==
    [kind |-> "exception", content |-> <<"str", "">>, error |-> msg, meta |-> "none"]

NotFoundResult == ToolResult(<<"str", "">>, "not_found", "none")

\* The tool body returned `value`: success path of execute_tool.
SuccessResult(t, value) ==
    ToolResult(value, None, IF ToolDef(t).terminate THEN "true" ELSE "false")

\* The tool body threw: the except path of execute_tool.
FailureResult(msg) == ToolResult(<<"str", "">>, msg, "noterm")

\* ToolResult.content is Union[str, dict, list, List[BaseModel], BaseModel]:
\* constructing a ToolResult with any other value raises a validation error.
Accepted(value) == value[1] \in {"str", "dict", "baddict"}

\* Outcome of a tool body that has run to its end.  The ToolResult of the
\* success path is built inside the try block, so a rejected content lands
\* in the except path.
BodyResult(t) ==
    IF ToolDef(t).returns[1] = "raise"
    THEN FailureResult(ToolDef(t).returns[2])
    ELSE IF ~Accepted(ToolDef(t).returns)
    THEN FailureResult("validation_error")
    ELSE SuccessResult(t, ToolDef(t).returns)

----------------------------------------------------------------------------
(* Messages and results *)

Msg(role, content) ==
    [role |-> role, content |-> content, calls |-> << >>, id |-> NoId, name |-> None]

SystemMsg == Msg("system", <<"text", "sys">>)

\* The empty system_context, and the values update_system_context may give
\* the placeholder of the prompt template.
NoContext == "none"
Contexts == {"alice", "bob"}

\* Lines 111-131, the system_prompt property of an agent whose prompt is a
\* template: as it stands while the context is empty, formatted with the
\* context otherwise.
SystemPrompt(a) ==
    IF system_context[a] = NoContext THEN <<"text", "sys">>
    ELSE <<"text", system_context[a]>>
UserMsg(what) == Msg("user", <<"text", what>>)
AssistantMsg(content, calls) == [Msg("assistant", content) EXCEPT !.calls = calls]
ToolMsg(call, content) == [Msg("tool", content) EXCEPT !.id = call.id, !.name = call.name]

NoResult ==
    [status |-> "none", success |-> FALSE, content |-> <<"none", "">>, iterations |-> 0,
     reason |-> None, error_type |-> None, terminated_by |-> None]

AgentResult(success, content, iteration) ==
    [NoResult EXCEPT !.status = "returned", !.success = success, !.content = content,
                     !.iterations = iteration]

\* Mutant of RefusalResult: a refusal is reported like an empty answer.
RefusalAsNoContent(it) ==
    [AgentResult(FALSE, <<"str", "no_content">>, it) EXCEPT !.reason = "no_content_after_retries"]

RefusalResult(it) ==
    [AgentResult(FALSE, <<"str", "refused">>, it) EXCEPT !.reason = "refusal"]
NoContentResult(it) ==
    [AgentResult(FALSE, <<"str", "no_content">>, it) EXCEPT !.reason = "no_content_after_retries"]
MaxIterationsResult(it) ==
    [AgentResult(FALSE, <<"str", "max_iterations">>, it) EXCEPT !.reason = "max_iterations_reached"]
ErrorResult(it, type) ==
    [AgentResult(FALSE, <<"str", type>>, it) EXCEPT !.error_type = type]
UnexpectedErrorResult(it) == ErrorResult(it, "unexpected_error")
FinalResult(it, content) == AgentResult(TRUE, content, it)
TerminatedResult(it, t, content) ==
    [AgentResult(TRUE, content, it) EXCEPT !.terminated_by = t]

\* Serialisation of a tool result's content into the tool-response text.
\* ok = FALSE: json.dumps raised.
Serialize(content) ==
    CASE content[1] = "str"  -> [ok |-> TRUE,  text |-> <<"text", content[2]>>]
      [] content[1] = "dict" -> [ok |-> TRUE,  text |-> <<"json", content[2]>>]
      [] OTHER               -> [ok |-> FALSE, text |-> <<"none", "">>]

\* Line 498: tool_result.metadata and tool_result.metadata.get('terminate', False)
ShouldTerminate(tr) == tr.meta = "true"

\* Line 499: the first successful terminating tool of the batch is kept.
TerminationPick(term, k, tr) ==
    IF ShouldTerminate(tr) /\ tr.error = None /\ term = 0 THEN k ELSE term

\* Mutant of ErrorClass: an exception of no known class counts as a timeout.
ErrorClassNoFatal(e) ==
    IF e.json THEN "json_decode_error"
    ELSE IF "rate_limit" \in e.words \/ "429" \in e.words THEN "rate_limit"
    ELSE "timeout"

\* Classification of an exception raised by the model call (lines 285-382).
ErrorClass(e) ==
    IF e.json THEN "json_decode_error"
    ELSE IF "rate_limit" \in e.words \/ "429" \in e.words THEN "rate_limit"
    ELSE IF "timeout" \in e.words THEN "timeout"
    ELSE "api_error"

----------------------------------------------------------------------------
(* The program state a step works on, threaded through the statements of   *)
(* one atomic block.                                                       *)

Cur ==
    [messages |-> messages, tracing |-> tracing, rec |-> rec, frames |-> frames,
     result |-> result, runCtr |-> runCtr]

Traced(st, a) == st.tracing[a] # None
RecOf(st, a) == st.rec[st.tracing[a]]
PutRec(st, a, r) == [st EXCEPT !.rec[st.tracing[a]] = r]
\* An append that lands in the history of the top-level agent, whoever
\* appends.
AppendToCoordinator(st, a, m) ==
    [st EXCEPT !.messages["A0"] = Append(@, m)]

AppendMsg(st, a, m) ==
    [st EXCEPT !.messages[a] = Append(@, m)]
DropFrame(fs, f) == [g \in (DOMAIN fs) \ {f} |-> fs[g]]
AddFrame(fs, f, fr) == [g \in (DOMAIN fs) \cup {f} |-> IF g = f THEN fr ELSE fs[g]]
Front(s) == SubSeq(s, 1, Len(s) - 1)
Last(s) == s[Len(s)]

\* A call of the current batch, by its position among the valid calls.
ValidCall(fr, k) == fr.batch[fr.valid[k]]

\* A task of the gather has finished with tool result tr.
TaskDone(fr, k, tr) ==
    [fr EXCEPT !.tstat[k] = "done", !.tres[k] = tr, !.order = Append(@, k)]

----------------------------------------------------------------------------
(* register_delegate.agent_caller: what follows `await agent.run(query)`   *)

\* Lines 346-367 (tracing branch) and 370-371: frame f, a delegated run,
\* has produced res; the delegation is closed, the delegate's tracing
\* reference restored and the tool result handed to the caller's gather.
CallerEpilogue(st, f, res) ==
    LET fr == st.frames[f]
        p == Front(f)
        k == Last(f)
        caller == st.frames[p].agent
        callee == fr.agent
        raised == res.status = "raised"
        \* calling_agent.tracing is read again here; None has no end_delegation
        lost == fr.traced /\ ~Traced(st, caller)
        st1 == IF fr.traced /\ ~lost
               THEN PutRec(st, caller,
                           EndDelegation(RecOf(st, caller), caller, callee,
                                         IF raised THEN FALSE ELSE res.success))
               ELSE st
        st2 == IF fr.traced THEN [st1 EXCEPT !.tracing[callee] = fr.original_tracing] ELSE st1
        tr == IF raised \/ lost THEN FailureResult("delegate_error")
              ELSE SuccessResult(fr.tool, res.content)
    IN  [st2 EXCEPT !.frames = DropFrame([@ EXCEPT ![p] = TaskDone(@, k, tr)], f)]

\* run() hands res to whoever awaited it.
Return(st, f, res) ==
    IF f = Root
    THEN [st EXCEPT !.result = res, !.frames[f].pc = "done"]
    ELSE CallerEpilogue(st, f, res)

----------------------------------------------------------------------------
(* BaseAgent.run *)

\* The "End tracing" block before each return: record_error on the hard
\* failures, end_agent, end_run.
EndTracing(st, a, success, withError) ==
    IF ~Traced(st, a) THEN st
    ELSE LET r0 == RecOf(st, a)
             r1 == IF withError THEN RecordError(r0, a) ELSE r0
         IN  PutRec(st, a, EndRun(EndAgent(r1, a, success)))

Finish(st, f, res, withError) ==
    Return(EndTracing(st, st.frames[f].agent, res.success, withError), f, res)

\* A run() without the handler of lines 571-588: the exception leaves run().
UnexpectedErrorPropagates(st, f) ==
    Return(st, f, [NoResult EXCEPT !.status = "raised"])

\* Lines 571-588: the handler around the processing of a response.
UnexpectedError(st, f) ==
    Finish(st, f, UnexpectedErrorResult(st.frames[f].iteration), TRUE)

\* Line 207: `while retry_count < max_retries`, entered with retry_count = 0.
\* With max_retries = 0 the body never runs and line 388 reads the unbound
\* local `message`.
RetryHead(st, f) ==
    IF st.frames[f].retry_count < st.frames[f].max_retries
    THEN [st EXCEPT !.frames[f].pc = "model"]
    ELSE UnexpectedError(st, f)

\* A loop that allows one iteration more than max_iterations.
LoopHeadOneMore(st, f) ==
    LET fr == st.frames[f]
    IN  IF fr.iteration <= fr.max_iterations
        THEN RetryHead([st EXCEPT !.frames[f].iteration = @ + 1,
                                  !.frames[f].retry_count = 0], f)
        ELSE Finish(st, f, MaxIterationsResult(fr.iteration), FALSE)

\* Lines 200-205 and 590-604.
LoopHead(st, f) ==
    LET fr == st.frames[f]
    IN  IF fr.iteration < fr.max_iterations
        THEN RetryHead([st EXCEPT !.frames[f].iteration = @ + 1,
                                  !.frames[f].retry_count = 0], f)
        ELSE Finish(st, f, MaxIterationsResult(fr.iteration), FALSE)

NewFrame(a, maxIt, maxRet) ==
    [agent |-> a, pc |-> "model", iteration |-> 0, retry_count |-> 0,
     max_iterations |-> maxIt, max_retries |-> maxRet,
     asyncio_bound |-> FALSE, recording |-> FALSE, log |-> << >>,
     batch |-> << >>, valid |-> << >>,
     tstat |-> << >>, tres |-> << >>, order |-> << >>,
     traced |-> FALSE, original_tracing |-> None, tool |-> None]

\* Lines 172-197, then the loop head: the system prompt is re-resolved, the
\* user message appended, the trace run started when none is open.
EnterRun(st, f, fr, input) ==
    LET a == fr.agent
        st1 == [st EXCEPT !.messages[a][1].content = SystemPrompt(a),
                          !.messages[a] = Append(@, UserMsg(input)),
                          !.frames = AddFrame(@, f, fr)]
        fresh == Traced(st1, a) /\ RecOf(st1, a).run_id = NoRun
        st2 == IF fresh
               THEN [PutRec(st1, a, StartRun(RecOf(st1, a), st1.runCtr + 1))
                        EXCEPT !.runCtr = @ + 1]
               ELSE st1
        st3 == IF Traced(st2, a) THEN PutRec(st2, a, StartAgent(RecOf(st2, a), a)) ELSE st2
    IN  LoopHead(st3, f)

\* agent_caller up to and including the first part of agent.run(query)
\* (lines 326-344 or 370): the delegate tool of call k of frame p starts.
EnterDelegate(st, p, k) ==
    LET t == ValidCall(st.frames[p], k).name
        caller == st.frames[p].agent
        callee == DelegateOf(t)
        traced == Traced(st, caller)
        st1 == IF traced
               THEN [PutRec(st, caller, StartDelegation(RecOf(st, caller), caller, callee))
                        EXCEPT !.tracing[callee] = st.tracing[caller]]
               ELSE st
        fr == [NewFrame(callee, DefaultMaxIterations, DefaultMaxRetries)
                  EXCEPT !.traced = traced, !.original_tracing = st.tracing[callee], !.tool = t]
    IN  EnterRun([st1 EXCEPT !.frames[p].tstat[k] = "running"], Append(p, k), fr, "query")

\* Lines 413-433: append the inline error of every call whose arguments do
\* not parse, in request order.
RECURSIVE ParsePhase(_, _, _, _)
ParsePhase(st, a, batch, i) ==
    IF i > Len(batch) THEN st
    ELSE ParsePhase(IF batch[i].args = "malformed"
                    THEN AppendMsg(st, a, ToolMsg(batch[i], <<"error", "invalid_arguments">>))
                    ELSE st,
                    a, batch, i + 1)

\* valid_tool_calls, as positions of the batch.
RECURSIVE ValidPositions(_, _)
ValidPositions(batch, i) ==
    IF i > Len(batch) THEN << >>
    ELSE (IF batch[i].args = "malformed" THEN << >> ELSE <<i>>) \o ValidPositions(batch, i + 1)

\* Lines 436-445.
RECURSIVE TraceStarts(_, _, _, _)
TraceStarts(r, a, calls, k) ==
    IF k > Len(calls) THEN r
    ELSE TraceStarts(StartToolCall(r, a, calls[k].name, calls[k].id), a, calls, k + 1)

\* Line 454: `asyncio` is a local of run() (the `import asyncio` statements of
\* the retry handlers, lines 307, 319 and 345, make it one), bound only once
\* one of those handlers has run in this activation.
GatherAvailable(fr) == fr.asyncio_bound

\* Lines 387-457: the assistant message is appended and the tool calls are
\* taken up to the point where the gather is awaited.
Dispatch(st, f, batch) ==
    LET a == st.frames[f].agent
        st1 == AppendMsg(st, a, AssistantMsg(<<"none", "">>, batch))
        st2 == ParsePhase(st1, a, batch, 1)
        valid == ValidPositions(batch, 1)
        calls == [k \in 1..Len(valid) |-> batch[valid[k]]]
        st3 == [st2 EXCEPT !.frames[f].batch = batch,
                           !.frames[f].valid = valid,
                           !.frames[f].tstat = [k \in 1..Len(valid) |-> "new"],
                           !.frames[f].tres = [k \in 1..Len(valid) |-> NotFoundResult],
                           !.frames[f].order = << >>]
        st4 == IF Traced(st3, a) THEN PutRec(st3, a, TraceStarts(RecOf(st3, a), a, calls, 1)) ELSE st3
    IN  IF Len(valid) = 0 THEN LoopHead(st3, f)
        ELSE IF GatherAvailable(st4.frames[f]) THEN [st4 EXCEPT !.frames[f].pc = "gather"]
        ELSE UnexpectedError(st4, f)

\* Mutant of RetriesLeft: one call more than max_retries.
OneMoreRetry(retry_count, max_retries) ==
    retry_count <= max_retries

\* Lines 255, 289, 317, 344: after retry_count += 1, is another call made?
RetriesLeft(retry_count, max_retries) ==
    retry_count < max_retries

\* Mutant of Corrective: nothing is said to the model before the retry.
NoCorrective(st, a) ==
    st

\* Lines 257-260: the corrective user message before a retry.
Corrective(st, a) ==
    AppendMsg(st, a, UserMsg("corrective"))

\* What the awaited call of line 226 came back with, noted together with the
\* iteration it was made in when the agent's client is a recording one.
Noted(st, f, resp) ==
    IF st.frames[f].recording
    THEN [st EXCEPT !.frames[f].log =
              Append(@, [iteration |-> st.frames[f].iteration, kind |-> resp.kind,
                         error |-> resp.error])]
    ELSE st

\* Lines 226-382: the awaited model call of frame f has ended with resp.
OnResponse(st0, f, resp) ==
    LET st == Noted(st0, f, resp)
        fr == st.frames[f]
        a == fr.agent
        it == fr.iteration
        rc == fr.retry_count + 1
        class == ErrorClass(resp.error)
    IN  CASE resp.kind = "final" ->
               Finish(AppendMsg(st, a, AssistantMsg(<<"text", "answer">>, << >>)), f,
                      FinalResult(it, <<"str", "answer">>), FALSE)
          [] resp.kind = "tools" -> Dispatch(st, f, resp.batch)
          [] resp.kind = "refusal" -> Finish(st, f, RefusalResult(it), FALSE)
          [] resp.kind = "empty" ->
               IF RetriesLeft(rc, fr.max_retries)
               THEN Corrective([st EXCEPT !.frames[f].retry_count = rc], a)
               ELSE Finish(st, f, NoContentResult(it), FALSE)
          [] resp.kind = "error" /\ class = "api_error" ->
               Finish(st, f, ErrorResult(it, class), TRUE)
          [] OTHER ->
               IF RetriesLeft(rc, fr.max_retries)
               THEN [st EXCEPT !.frames[f].retry_count = rc, !.frames[f].asyncio_bound = TRUE]
               ELSE Finish(st, f, ErrorResult(it, class), TRUE)

\* Results taken as the tasks complete (asyncio.as_completed in place of
\* gather).
CompletionOrder(fr) == fr.order

\* Lines 454-461: gather hands the results back in the order of the
\* awaitables, whatever the order of completion; zip pairs them with the calls.
ResultOrder(fr) == [k \in 1..Len(fr.valid) |-> k]

\* Lines 459-529: the results of the gather are taken in request order.
\* Returns the state, the position of the terminating call (0: none) and
\* whether the serialisation of a result raised.
RECURSIVE ProcessResults(_, _, _, _)
ProcessResults(st, f, n, term) ==
    LET fr == st.frames[f]
        a == fr.agent
        k == ResultOrder(fr)[n]
        call == ValidCall(fr, k)
        tr == fr.tres[k]
        failed == tr.error # None
        st1 == IF Traced(st, a)
               THEN PutRec(st, a, EndToolCall(RecOf(st, a), a, call.name, call.id, failed))
               ELSE st
        ser == Serialize(tr.content)
    IN  IF n > Len(fr.valid) THEN [st |-> st, term |-> term, raised |-> FALSE]
        ELSE IF tr.kind = "exception"
        THEN ProcessResults(AppendMsg(st1, a, ToolMsg(call, <<"error", tr.error>>)), f, n + 1, term)
        ELSE IF failed
        THEN ProcessResults(AppendMsg(st1, a, ToolMsg(call, <<"error", tr.error>>)), f, n + 1,
                            TerminationPick(term, k, tr))
        ELSE IF ~ser.ok THEN [st |-> st1, term |-> term, raised |-> TRUE]
        ELSE ProcessResults(AppendMsg(st1, a, ToolMsg(call, ser.text)), f, n + 1,
                            TerminationPick(term, k, tr))

\* Lines 459-551 and 571-588: after the gather.
AfterGather(st, f) ==
    LET out == ProcessResults(st, f, 1, 0)
        fr == out.st.frames[f]
    IN  IF out.raised THEN UnexpectedError(out.st, f)
        ELSE IF out.term # 0
        THEN Finish(out.st, f,
                    TerminatedResult(fr.iteration, ValidCall(fr, out.term).name,
                                     fr.tres[out.term].content), FALSE)
        ELSE LoopHead(out.st, f)

----------------------------------------------------------------------------
(* The model API: what a call of chat.completions.create may come back with *)

ApiErrors ==
    { [json |-> TRUE,  words |-> {}],
      [json |-> FALSE, words |-> {"rate_limit"}],
      [json |-> FALSE, words |-> {"timeout"}],
      [json |-> FALSE, words |-> {}] }

NoError == [json |-> FALSE, words |-> {}]

Response(kind) == [kind |-> kind, batch |-> << >>, error |-> NoError]

\* A name the toolkit of a holds, used for the ill-formed requests.
SomeTool(a) == CHOOSE t \in toolkit[a] : \A u \in toolkit[a] : t = u \/ ~IsDelegate(t) \/ IsDelegate(u)

\* The requests a model may make of agent a: a registered tool with
\* well-formed arguments, or (ill-formed) an unknown tool, arguments that are
\* no JSON, arguments that are JSON but no object.
GoodCalls(a) == {[name |-> t, args |-> "ok"] : t \in toolkit[a]}
BadCalls(a) ==
    { [name |-> "nope", args |-> "ok"],
      [name |-> SomeTool(a), args |-> "malformed"],
      [name |-> SomeTool(a), args |-> "nondict"] }

BadCount(b, bad) == Cardinality({i \in 1..Len(b) : b[i] \in bad})

Batches(a) ==
    LET kinds == GoodCalls(a) \cup (IF badLeft > 0 THEN BadCalls(a) ELSE {})
        seqs == UNION {[1..n -> kinds] : n \in 1..MaxBatch}
    IN  {b \in seqs : BadCount(b, BadCalls(a)) <= badLeft /\ idCtr + Len(b) <= MaxToolCalls}

\* The model numbers its tool calls.
WithIds(b) == [i \in 1..Len(b) |-> [id |-> idCtr + i, name |-> b[i].name, args |-> b[i].args]]

Responses(a) ==
    {Response("final")}
    \cup (IF toolkit[a] = {} THEN {}
          ELSE {[Response("tools") EXCEPT !.batch = b] : b \in Batches(a)})
    \cup (IF faultsLeft = 0 THEN {}
          ELSE {Response("empty"), Response("refusal")}
               \cup {[Response("error") EXCEPT !.error = e] : e \in ApiErrors})

----------------------------------------------------------------------------
(* Actions *)

Apply(st) ==
    /\ messages' = st.messages
    /\ tracing' = st.tracing
    /\ rec' = st.rec
    /\ frames' = st.frames
    /\ result' = st.result
    /\ runCtr' = st.runCtr

\* A caller awaits agent.run(input, max_iterations, max_retries) on A0.
Run ==
    /\ result.status = "none"
    /\ Root \notin DOMAIN frames
    /\ \E maxIt \in 0..MaxIter, maxRet \in 0..MaxRetry :
          Apply(EnterRun(Cur, Root, NewFrame("A0", maxIt, maxRet), "input"))
    /\ UNCHANGED <<registry, idCtr, callsLeft, faultsLeft, badLeft>>

\* The same on an agent whose client records the calls made of it.
RunRecorded ==
    /\ result.status = "none"
    /\ Root \notin DOMAIN frames
    /\ \E maxIt \in 0..MaxIter, maxRet \in 0..MaxRetry :
          Apply(EnterRun(Cur, Root, [NewFrame("A0", maxIt, maxRet) EXCEPT !.recording = TRUE],
                         "input"))
    /\ UNCHANGED <<registry, idCtr, callsLeft, faultsLeft, badLeft>>

\* The model call a frame awaits ends (a response or an exception) and the
\* frame runs on to its next suspension point or to its return.
ModelRespond ==
    \E f \in DOMAIN frames :
        /\ frames[f].pc = "model"
        /\ callsLeft > 0
        /\ \E resp \in Responses(frames[f].agent) :
              /\ Apply(OnResponse(Cur, f, [resp EXCEPT !.batch = WithIds(@)]))
              /\ idCtr' = idCtr + Len(resp.batch)
              /\ faultsLeft' = IF resp.kind \in {"final", "tools"} THEN faultsLeft ELSE faultsLeft - 1
              /\ badLeft' = badLeft - BadCount(resp.batch, BadCalls(frames[f].agent))
        /\ callsLeft' = callsLeft - 1
        /\ UNCHANGED registry

\* Lines 448-452 and execute_tool: a task of the gather runs from its start
\* to its first suspension point.  The tasks start in request order.
StartTask ==
    \E f \in DOMAIN frames : \E k \in 1..Len(frames[f].valid) :
        LET fr == frames[f]
            call == ValidCall(fr, k)
        IN  /\ fr.pc = "gather"
            /\ fr.tstat[k] = "new"
            /\ \A j \in 1..(k - 1) : fr.tstat[j] # "new"
            /\ Apply(IF call.args = "nondict"
                     THEN [Cur EXCEPT !.frames[f] = TaskDone(@, k, GatherException("bad_kwargs"))]
                     ELSE IF call.name \notin toolkit[fr.agent]
                     THEN [Cur EXCEPT !.frames[f] = TaskDone(@, k, NotFoundResult)]
                     ELSE IF IsDelegate(call.name) THEN EnterDelegate(Cur, f, k)
                     ELSE IF ToolDef(call.name).async
                     THEN [Cur EXCEPT !.frames[f].tstat[k] = "running"]
                     ELSE [Cur EXCEPT !.frames[f] = TaskDone(@, k, BodyResult(call.name))])
            /\ UNCHANGED <<registry, idCtr, callsLeft, faultsLeft, badLeft>>

\* An asynchronous tool body that was suspended runs to its end.
FinishTask ==
    \E f \in DOMAIN frames : \E k \in 1..Len(frames[f].valid) :
        /\ frames[f].pc = "gather"
        /\ frames[f].tstat[k] = "running"
        /\ ~IsDelegate(ValidCall(frames[f], k).name)
        /\ Apply([Cur EXCEPT !.frames[f] = TaskDone(@, k, BodyResult(ValidCall(frames[f], k).name))])
        /\ UNCHANGED <<registry, idCtr, callsLeft, faultsLeft, badLeft>>

\* The gather of a frame has all its results: the frame resumes.
GatherDone ==
    \E f \in DOMAIN frames :
        /\ frames[f].pc = "gather"
        /\ \A k \in 1..Len(frames[f].valid) : frames[f].tstat[k] = "done"
        /\ Apply(AfterGather(Cur, f))
        /\ UNCHANGED <<registry, idCtr, callsLeft, faultsLeft, badLeft>>

Next == Run \/ ModelRespond \/ StartTask \/ FinishTask \/ GatherDone

----------------------------------------------------------------------------
(* Initial states: the agents as constructed *)

\* Nothing has been called on a registry directly.
\* context_window or int(os.environ.get("CONTEXT_WINDOW", "0")) or None:
\* a window of 0 is no window.
NoWindow == 0

NoOutcome == [op |-> "none", name |-> None, raised |-> FALSE, res |-> None]

\* The registries as the constructors leave them: tools registered through
\* the decorator or add_tool have a terminate flag and a schema, delegates a
\* schema only (register_delegate sets no flag).  Each tool is a function
\* registered under its own name.
AsConstructed ==
    /\ flags = [a \in Agents |->
                  [t \in {u \in toolkit[a] : ~IsDelegate(u)} |-> ToolDef(t).terminate]]
    /\ schemas = toolkit
    /\ stored = [a \in Agents |->
                   [callable |-> [t \in toolkit[a] |-> t],
                    schema |-> [t \in toolkit[a] |-> [name |-> t, of |-> t]]]]
    /\ outcome = NoOutcome
    /\ context_window = [a \in Agents |-> NoWindow]
    /\ system_context = [a \in Agents |-> NoContext]

InitCommon ==
    /\ messages = [a \in Agents |-> <<SystemMsg>>]
    /\ rec = [k \in RecIds |-> NewRecorder]
    /\ frames = << >>
    /\ result = NoResult
    /\ idCtr = 0
    /\ runCtr = 0

\* One traced agent with plain tools.
Init ==
    /\ InitCommon
    /\ toolkit = [a \in Agents |-> IF a = "A0" THEN PlainTools ELSE {}]
    /\ tracing = [a \in Agents |-> IF a = "A0" THEN "K0" ELSE None]
    /\ AsConstructed
    /\ badLeft = MaxBad
    /\ callsLeft = MaxCalls
    /\ faultsLeft = MaxFaults

Spec == Init /\ [][Next]_vars

\* A coordinator A0 (traced or not) with the delegates A1 and A2; A1
\* delegates to A2.
InitDeleg ==
    /\ InitCommon
    /\ toolkit = [a \in Agents |->
                    CASE a = "A0" -> {"ask_1", "ask_2"}
                      [] a = "A1" -> {"ask_2", "t_ok"}
                      [] OTHER -> {"t_slow"}]
    /\ tracing \in {[a \in Agents |-> IF a = "A0" THEN k ELSE None] : k \in RecIds \cup {None}}
    /\ AsConstructed
    /\ badLeft = 0
    /\ callsLeft = MaxDelegCalls
    /\ faultsLeft = MaxDelegFaults

SpecDeleg == InitDeleg /\ [][Next]_vars

\* The chain A0 -> A1 -> A2 on the recorder of A0.
InitChain ==
    /\ InitCommon
    /\ toolkit = [a \in Agents |->
                    CASE a = "A0" -> {"ask_1"}
                      [] a = "A1" -> {"ask_2"}
                      [] OTHER -> {"t_slow"}]
    /\ tracing = [a \in Agents |-> IF a = "A0" THEN "K0" ELSE None]
    /\ AsConstructed
    /\ badLeft = 0
    /\ callsLeft = MaxDelegCalls
    /\ faultsLeft = MaxDelegFaults

SpecChain == InitChain /\ [][Next]_vars

\* A coordinator A0 (traced or not) with a slow tool and the one delegate
\* A1, which holds a plain tool.
InitPair ==
    /\ InitCommon
    /\ toolkit = [a \in Agents |->
                    CASE a = "A0" -> {"ask_1", "t_slow"}
                      [] a = "A1" -> {"t_ok"}
                      [] OTHER -> {}]
    /\ tracing \in {[a \in Agents |-> IF a = "A0" THEN k ELSE None] : k \in RecIds \cup {None}}
    /\ AsConstructed
    /\ badLeft = 0
    /\ callsLeft = MaxCalls
    /\ faultsLeft = MaxFaults

SpecPair == InitPair /\ [][Next]_vars

\* One agent with two tools, traced or not, whose client records its calls.
InitRetry ==
    /\ InitCommon
    /\ toolkit = [a \in Agents |-> IF a = "A0" THEN {"t_ok", "fin2"} ELSE {}]
    /\ tracing \in {[a \in Agents |-> IF a = "A0" THEN k ELSE None] : k \in {None, "K0"}}
    /\ AsConstructed
    /\ badLeft = 0
    /\ callsLeft = MaxCalls
    /\ faultsLeft = MaxFaults

NextRetry ==
    \/ RunRecorded
    \/ ModelRespond
    \/ StartTask
    \/ FinishTask
    \/ GatherDone

SpecRetry == InitRetry /\ [][NextRetry]_vars

----------------------------------------------------------------------------
(* The same agent with a model that answers every call, whatever the mix of *)
(* failures: each awaited call ends, each started tool body ends *)

InitAnswered ==
    /\ InitCommon
    /\ toolkit = [a \in Agents |-> IF a = "A0" THEN {"t_ok", "fin2"} ELSE {}]
    /\ tracing = [a \in Agents |-> None]
    /\ AsConstructed
    /\ badLeft = 0
    /\ callsLeft = MaxIter * MaxRetry
    /\ faultsLeft = MaxIter * MaxRetry

SpecAnswered == InitAnswered /\ [][NextRetry]_vars /\ WF_vars(NextRetry)

----------------------------------------------------------------------------
(* A traced agent whose owner also resets it and updates its prompt context *)

\* A reset that keeps the system entry the history has.
KeepSystemEntry(a) ==
    <<messages[a][1]>>

\* Lines 674-676: the list reset() binds to self.messages.
ResetHistory(a) ==
    <<Msg("system", SystemPrompt(a))>>

\* A0.reset(), at any time: before, after, or (from another task) during a run.
Reset ==
    /\ messages' = [messages EXCEPT !["A0"] = ResetHistory("A0")]
    /\ UNCHANGED <<registry, tracing, rec, frames, result, idCtr, runCtr,
                   callsLeft, faultsLeft, badLeft>>

\* A0.update_system_context(...): the new values are merged into the context.
UpdateSystemContext ==
    /\ \E c \in Contexts : system_context' = [system_context EXCEPT !["A0"] = c]
    /\ UNCHANGED <<toolkit, flags, schemas, stored, outcome, context_window, messages, tracing,
                   rec, frames, result, idCtr, runCtr, callsLeft, faultsLeft, badLeft>>

InitReset ==
    /\ InitCommon
    /\ toolkit = [a \in Agents |-> IF a = "A0" THEN {"t_ok", "fin2"} ELSE {}]
    /\ tracing = [a \in Agents |-> IF a = "A0" THEN "K0" ELSE None]
    /\ AsConstructed
    /\ badLeft = 0
    /\ callsLeft = MaxCalls
    /\ faultsLeft = MaxFaults

NextReset ==
    \/ Run
    \/ ModelRespond
    \/ StartTask
    \/ FinishTask
    \/ GatherDone
    \/ Reset
    \/ UpdateSystemContext

SpecReset == InitReset /\ [][NextReset]_vars

----------------------------------------------------------------------------
(* The recorder driven through its interface, as the unit tests drive it *)

Kit == rec["K0"]
SetKit(r) ==
    /\ rec' = [rec EXCEPT !["K0"] = r]
    /\ UNCHANGED <<messages, tracing, registry, frames, result, idCtr, callsLeft, faultsLeft, badLeft>>

Room == Len(Kit.events) < MaxEvents
KitNames == {"A0", "A1"}
\* A call traced without an id, and two traced with the ids the model gave
\* them.
KitCallIds == {NoId, NoId + 1, NoId + 2}

KitStartRun ==
    /\ runCtr < MaxRuns
    /\ SetKit(StartRun(Kit, runCtr + 1))
    /\ runCtr' = runCtr + 1

KitEndRun == SetKit(EndRun(Kit)) /\ UNCHANGED runCtr

KitStartAgent ==
    Room /\ UNCHANGED runCtr /\ \E a \in KitNames : SetKit(StartAgent(Kit, a))

KitEndAgent ==
    Room /\ UNCHANGED runCtr /\ \E a \in KitNames : SetKit(EndAgent(Kit, a, TRUE))

KitStartToolCall ==
    Room /\ UNCHANGED runCtr /\ \E id \in KitCallIds : SetKit(StartToolCall(Kit, "A0", "t_ok", id))

KitEndToolCall ==
    Room /\ UNCHANGED runCtr /\ \E id \in KitCallIds : SetKit(EndToolCall(Kit, "A0", "t_ok", id, FALSE))

KitRecordError == Room /\ UNCHANGED runCtr /\ SetKit(RecordError(Kit, "A0"))

KitStartDelegation == Room /\ UNCHANGED runCtr /\ SetKit(StartDelegation(Kit, "A0", "A1"))

KitEndDelegation == Room /\ UNCHANGED runCtr /\ SetKit(EndDelegation(Kit, "A0", "A1", TRUE))

NextRec ==
    \/ KitStartRun \/ KitEndRun \/ KitStartAgent \/ KitEndAgent
    \/ KitStartToolCall \/ KitEndToolCall \/ KitRecordError
    \/ KitStartDelegation \/ KitEndDelegation

\* A fresh TracingKit, constructed with any of the output-file patterns.
InitRec ==
    /\ messages = [a \in Agents |-> <<SystemMsg>>]
    /\ frames = << >>
    /\ result = NoResult
    /\ idCtr = 0
    /\ runCtr = 0
    /\ rec \in {[k \in RecIds |-> [NewRecorder EXCEPT !.pattern = p]] : p \in FilePatterns}
    /\ toolkit = [a \in Agents |-> {}]
    /\ tracing = [a \in Agents |-> None]
    /\ AsConstructed
    /\ badLeft = 0
    /\ callsLeft = 0
    /\ faultsLeft = 0

SpecRec == InitRec /\ [][NextRec]_vars

----------------------------------------------------------------------------
(* The tool registry of A0 driven through add_tool, register_delegate and *)
(* execute_tool *)

Functions == {"t_ok", "t_bad", "t_none", "fin2", "f_tuple", "f_nodoc"}

\* func.__name__, the name function_to_tool_schema writes into the schema
\* (parser.py line 177).
FunctionName(f) == f

\* func._tool_name: the decorator's `name` argument, or the function's name.
\* f_named is decorated with name="lookup".
DecoratedName(f) == IF f = "f_named" THEN "lookup" ELSE f

\* The decorated methods the target of the toolkit may have.
Methods == {"f_named"}

\* The names given explicitly to add_tool and register_delegate.
CustomNames == {None, "fin2"}

ToolNames ==
    {DecoratedName(f) : f \in Functions \cup Methods} \cup {FunctionName(m) : m \in Methods}
        \cup {"ask_1", "nope"}

Put(fn, k, v) == [x \in (DOMAIN fn) \cup {k} |-> IF x = k THEN v ELSE fn[x]]

\* _discover_tools on a target whose decorated methods are `methods`: each is
\* stored under its _tool_name, with the schema as function_to_tool_schema
\* made it.
Discovered(methods) ==
    LET names == {DecoratedName(m) : m \in methods}
        Method(n) == CHOOSE m \in methods : DecoratedName(m) = n
    IN  [names |-> names,
         flags |-> [n \in names |-> ToolDef(Method(n)).terminate],
         callable |-> [n \in names |-> Method(n)],
         schema |-> [n \in names |-> [name |-> FunctionName(Method(n)), of |-> Method(n)]]]

\* add_tool(func, name=name, terminate=flag) on A0's toolkit, func being
\* decorated and carrying the decorator's flag ToolDef(f).terminate.  (The
\* discovery of lines 260-261 finds what the constructor found.)
AddTool(f, name, flag) ==
    LET tool_name == IF name # None THEN name ELSE DecoratedName(f)
        should_terminate == flag \/ ToolDef(f).terminate
    IN  /\ toolkit' = [toolkit EXCEPT !["A0"] = @ \cup {tool_name}]
        /\ flags' = [flags EXCEPT !["A0"] = Put(@, tool_name, should_terminate)]
        /\ IF ValidationRaises(f)
           THEN /\ schemas' = schemas
                /\ stored' = [stored EXCEPT !["A0"].callable = Put(@, tool_name, f)]
                /\ outcome' = [op |-> "add_tool", name |-> tool_name, raised |-> TRUE, res |-> None]
           ELSE /\ schemas' = [schemas EXCEPT !["A0"] = @ \cup {tool_name}]
                /\ stored' = [stored EXCEPT
                                !["A0"].callable = Put(@, tool_name, f),
                                !["A0"].schema = Put(@, tool_name, [name |-> tool_name, of |-> f])]
                /\ outcome' = [op |-> "add_tool", name |-> tool_name, raised |-> FALSE, res |-> None]
        /\ UNCHANGED <<context_window, system_context, messages, tracing, rec, frames, result,
                       idCtr, runCtr, callsLeft, faultsLeft, badLeft>>

\* toolkit.register_delegate(agent, tool_name=name) on A0's toolkit, caller
\* being the agent_caller made for that agent ("ask_1" for A1).  Nothing is
\* written into _tool_terminate.
RegisterDelegate(caller, name) ==
    LET tool_name == IF name # None THEN name ELSE caller
    IN  /\ toolkit' = [toolkit EXCEPT !["A0"] = @ \cup {tool_name}]
        /\ flags' = flags
        /\ schemas' = [schemas EXCEPT !["A0"] = @ \cup {tool_name}]
        /\ stored' = [stored EXCEPT
                        !["A0"].callable = Put(@, tool_name, caller),
                        !["A0"].schema = Put(@, tool_name, [name |-> tool_name, of |-> caller])]
        /\ outcome' = [op |-> "register_delegate", name |-> tool_name, raised |-> FALSE,
                       res |-> None]
        /\ UNCHANGED <<context_window, system_context, messages, tracing, rec, frames, result,
                       idCtr, runCtr, callsLeft, faultsLeft, badLeft>>

\* Line 484: self._tool_terminate.get(tool_name, False).
TerminateFlag(fl, t) == IF t \in DOMAIN fl THEN fl[t] ELSE FALSE

\* await toolkit.execute_tool(t) on A0's toolkit: the callable stored under
\* t runs (a delegate's agent_caller hands back the content of the delegated
\* run).
Execute(t) ==
    LET body == BodyResult(stored["A0"].callable[t])
        should_terminate == TerminateFlag(flags["A0"], t)
        res == IF t \notin toolkit["A0"] THEN NotFoundResult
               ELSE IF body.error # None THEN body
               ELSE ToolResult(body.content, None,
                               IF should_terminate THEN "true" ELSE "false")
    IN  /\ outcome' = [op |-> "execute_tool", name |-> t, raised |-> FALSE, res |-> res]
        /\ UNCHANGED <<toolkit, flags, schemas, stored, context_window, system_context, messages,
                       tracing, rec, frames, result, idCtr, runCtr, callsLeft, faultsLeft,
                       badLeft>>

\* Only t_ok is registered under another name than its own.
ToolsAdd ==
    \E f \in Functions, name \in CustomNames, flag \in BOOLEAN :
        /\ name = None \/ f = "t_ok"
        /\ AddTool(f, name, flag)
ToolsRegisterDelegate == \E name \in CustomNames : RegisterDelegate("ask_1", name)
ToolsExecute == \E t \in ToolNames : Execute(t)

NextTools ==
    \/ ToolsAdd
    \/ ToolsRegisterDelegate
    \/ ToolsExecute

\* A0 constructed: its toolkit has discovered the decorated methods of A0.
InitTools ==
    /\ messages = [a \in Agents |-> <<SystemMsg>>]
    /\ rec = [k \in RecIds |-> NewRecorder]
    /\ frames = << >>
    /\ result = NoResult
    /\ idCtr = NoId
    /\ runCtr = NoRun
    /\ tracing = [a \in Agents |-> None]
    /\ \E methods \in SUBSET Methods :
          LET found == [a \in Agents |-> Discovered(IF a = "A0" THEN methods ELSE {})]
          IN  /\ toolkit = [a \in Agents |-> found[a].names]
              /\ flags = [a \in Agents |-> found[a].flags]
              /\ schemas = toolkit
              /\ stored = [a \in Agents |->
                             [callable |-> found[a].callable, schema |-> found[a].schema]]
    /\ outcome = NoOutcome
    /\ context_window = [a \in Agents |-> NoWindow]
    /\ system_context = [a \in Agents |-> NoContext]
    /\ badLeft = 0
    /\ callsLeft = 0
    /\ faultsLeft = 0

SpecTools == InitTools /\ [][NextTools]_vars

----------------------------------------------------------------------------
(* Context window management: BaseAgent._prepare_messages *)

\* Number of characters of the strings that occur in the histories; "long"
\* stands for a text of 400 characters, a tool call for its 83 characters
\* of JSON, a tool schema for 200.
Length(x) ==
    CASE x = "system"    -> 6
      [] x = "user"      -> 4
      [] x = "assistant" -> 9
      [] x = "tool"      -> 4
      [] x = "sys"       -> 3
      [] x = "short"     -> 5
      [] x = "long"      -> 400
      [] x = "call"      -> 83
      [] x = "schema"    -> 200
      [] OTHER           -> 6

\* _estimate_tokens without tiktoken: len(text) // 4 + 1.
EstimateTokens(n) == n \div 4 + 1

\* json.dumps of a list of n items of the given kind: brackets, items, ", ".
ListLength(kind, n) == 2 + n * Length(kind) + 2 * (n - 1)

\* One message in _estimate_message_tokens: 4, one per key, and the estimate
\* of every value that is a string or a list.
MessageTokens(m) ==
    4 + (1 + EstimateTokens(Length(m.role)))
      + (1 + IF m.content[1] = "none" THEN 0 ELSE EstimateTokens(Length(m.content[2])))
      + (IF m.calls = << >> THEN 0
         ELSE 1 + EstimateTokens(ListLength("call", Len(m.calls))))
      + (IF m.role = "tool"
         THEN (1 + EstimateTokens(Length("call_1"))) + (1 + EstimateTokens(Length(m.name)))
         ELSE 0)

RECURSIVE SumTokens(_)
SumTokens(msgs) ==
    IF msgs = << >> THEN 0 ELSE MessageTokens(Head(msgs)) + SumTokens(Tail(msgs))

EstimateMessageTokens(msgs) == SumTokens(msgs) + 2

\* Mutant of ToolRunEnd: the inner loop stops after one tool response.
ToolRunEndAfterOne(msgs, j) ==
    IF j <= Len(msgs) /\ msgs[j].role = "tool" THEN j + 1 ELSE j

\* The inner loop of _group_messages: the first position from j on that
\* does not hold a tool response.
RECURSIVE ToolRunEnd(_, _)
ToolRunEnd(msgs, j) ==
    IF j <= Len(msgs) /\ msgs[j].role = "tool" THEN ToolRunEnd(msgs, j + 1) ELSE j

\* Mutant of GroupMessagesFrom: every message is a group of its own.
RECURSIVE GroupSingly(_, _)
GroupSingly(msgs, i) ==
    IF i > Len(msgs) THEN << >>
    ELSE <<(<<msgs[i]>>)>> \o GroupSingly(msgs, i + 1)

RECURSIVE GroupMessagesFrom(_, _)
GroupMessagesFrom(msgs, i) ==
    IF i > Len(msgs) THEN << >>
    ELSE IF msgs[i].role = "assistant" /\ msgs[i].calls # << >>
    THEN LET j == ToolRunEnd(msgs, i + 1)
         IN  <<SubSeq(msgs, i, j - 1)>> \o GroupMessagesFrom(msgs, j)
    ELSE <<(<<msgs[i]>>)>> \o GroupMessagesFrom(msgs, i + 1)

GroupMessages(msgs) == GroupMessagesFrom(msgs, 1)

\* Mutant of KeepGroups: every group is measured against the whole budget.
RECURSIVE KeepGroupsEach(_, _, _, _)
KeepGroupsEach(groups, g, kept_tokens, available) ==
    IF g = 0 THEN << >>
    ELSE IF EstimateMessageTokens(groups[g]) <= available
    THEN KeepGroupsEach(groups, g - 1, kept_tokens, available) \o <<groups[g]>>
    ELSE << >>

\* Mutant of KeepGroups: the walk passes over the newest group.
RECURSIVE KeepOlderGroups(_, _, _, _)
KeepOlderGroups(groups, g, kept_tokens, available) ==
    IF g = 0 THEN << >>
    ELSE IF g = Len(groups)
    THEN KeepOlderGroups(groups, g - 1, kept_tokens, available)
    ELSE IF kept_tokens + EstimateMessageTokens(groups[g]) <= available
    THEN KeepOlderGroups(groups, g - 1, kept_tokens + EstimateMessageTokens(groups[g]),
                         available) \o <<groups[g]>>
    ELSE << >>

\* The walk from the newest group to the oldest, g the group looked at.
RECURSIVE KeepGroups(_, _, _, _)
KeepGroups(groups, g, kept_tokens, available) ==
    IF g = 0 THEN << >>
    ELSE LET group_tokens == EstimateMessageTokens(groups[g])
         IN  IF kept_tokens + group_tokens <= available
             THEN KeepGroups(groups, g - 1, kept_tokens + group_tokens, available)
                      \o <<groups[g]>>
             ELSE << >>

\* Mutant of Flatten: the kept groups newest first.
RECURSIVE FlattenNewestFirst(_)
FlattenNewestFirst(groups) ==
    IF groups = << >> THEN << >> ELSE FlattenNewestFirst(Tail(groups)) \o Head(groups)

RECURSIVE Flatten(_)
Flatten(groups) ==
    IF groups = << >> THEN << >> ELSE Head(groups) \o Flatten(Tail(groups))

ToolSchemaTokens(a) ==
    IF schemas[a] = {} THEN 0
    ELSE EstimateTokens(ListLength("schema", Cardinality(schemas[a])))

\* Mutant of View: the kept groups without the system message.
ViewWithoutSystem(system_messages, kept_groups) ==
    Flatten(kept_groups)

\* Line 800: return system_messages + trimmed
View(system_messages, kept_groups) ==
    system_messages \o Flatten(kept_groups)

PrepareMessages(a) ==
    LET msgs == messages[a]
        system_messages == <<msgs[1]>>
        available == context_window[a] - EstimateMessageTokens(system_messages)
                       - ToolSchemaTokens(a) - ResponseReserve
        groups == GroupMessages(Tail(msgs))
    IN  IF context_window[a] = NoWindow THEN msgs
        ELSE IF available <= 0 THEN msgs
        ELSE View(system_messages, KeepGroups(groups, Len(groups), 0, available))

Texts == {"short", "long"}
Windows == {NoWindow, 600, 4170, 4220, 4300}

Grow(added) ==
    /\ Len(messages["A0"]) + Len(added) <= MaxHistory
    /\ messages' = [messages EXCEPT !["A0"] = @ \o added]

\* run() appends the user's input (line 187).
SayUser ==
    /\ \E x \in Texts : Grow(<<UserMsg(x)>>)
    /\ UNCHANGED <<registry, tracing, rec, frames, result, idCtr, runCtr,
                   callsLeft, faultsLeft, badLeft>>

\* run() appends an assistant message without tool calls (line 403).
SayAssistant ==
    /\ \E x \in Texts : Grow(<<AssistantMsg(<<"text", x>>, << >>)>>)
    /\ UNCHANGED <<registry, tracing, rec, frames, result, idCtr, runCtr,
                   callsLeft, faultsLeft, badLeft>>

\* run() appends an assistant message with n tool calls and the responses
\* to the first k of them (lines 403, 428, 477, 524); k < n when the run
\* broke off inside the batch.
SayTools ==
    /\ \E n \in 1..MaxBatch, k \in 0..MaxBatch :
          LET calls == [i \in 1..n |-> [id |-> idCtr + i, name |-> "t_ok", args |-> "ok"]]
              answers == [i \in 1..k |-> ToolMsg(calls[i], <<"text", "short">>)]
          IN  /\ k <= n
              /\ Grow(<<AssistantMsg(<<"none", "">>, calls)>> \o answers)
              /\ idCtr' = idCtr + n
    /\ UNCHANGED <<registry, tracing, rec, frames, result, runCtr,
                   callsLeft, faultsLeft, badLeft>>

\* A0._prepare_messages()
Prepare ==
    /\ outcome' = [op |-> "_prepare_messages", name |-> "A0", raised |-> FALSE,
                   res |-> PrepareMessages("A0")]
    /\ UNCHANGED <<toolkit, flags, schemas, stored, context_window, system_context, messages,
                   tracing, rec, frames, result, idCtr, runCtr, callsLeft, faultsLeft, badLeft>>

NextTrim ==
    \/ SayUser
    \/ SayAssistant
    \/ SayTools
    \/ Prepare

\* A0 constructed with one tool and some context window.
InitTrim ==
    /\ messages = [a \in Agents |-> <<SystemMsg>>]
    /\ rec = [k \in RecIds |-> NewRecorder]
    /\ frames = << >>
    /\ result = NoResult
    /\ idCtr = NoId
    /\ runCtr = NoRun
    /\ toolkit = [a \in Agents |-> IF a = "A0" THEN {"t_ok"} ELSE {}]
    /\ tracing = [a \in Agents |-> None]
    /\ flags = [a \in Agents |-> [t \in toolkit[a] |-> ToolDef(t).terminate]]
    /\ schemas = toolkit
    /\ stored = [a \in Agents |->
                   [callable |-> [t \in toolkit[a] |-> t],
                    schema |-> [t \in toolkit[a] |-> [name |-> t, of |-> t]]]]
    /\ outcome = NoOutcome
    /\ context_window \in {[a \in Agents |-> IF a = "A0" THEN w ELSE NoWindow] : w \in Windows}
    /\ system_context = [a \in Agents |-> NoContext]
    /\ badLeft = 0
    /\ callsLeft = 0
    /\ faultsLeft = 0

SpecTrim == InitTrim /\ [][NextTrim]_vars

----------------------------------------------------------------------------
(* _group_messages applied to arbitrary message sequences *)

GroupCalls == [i \in 1..MaxBatch |-> [id |-> NoId + i, name |-> "t_ok", args |-> "ok"]]

\* The messages a sequence is made of: a user message, assistant messages
\* without calls, with one call and with MaxBatch calls, and the responses
\* to those calls.
GroupInputs ==
    {UserMsg("input"), AssistantMsg(<<"text", "short">>, << >>),
     AssistantMsg(<<"none", "">>, SubSeq(GroupCalls, 1, 1)),
     AssistantMsg(<<"none", "">>, GroupCalls)}
    \cup {ToolMsg(GroupCalls[i], <<"text", "short">>) : i \in 1..MaxBatch}

\* agent._group_messages(messages["A0"])
Group ==
    /\ outcome.op = "none"
    /\ outcome' = [op |-> "_group_messages", name |-> "A0", raised |-> FALSE,
                   res |-> GroupMessages(messages["A0"])]
    /\ UNCHANGED <<toolkit, flags, schemas, stored, context_window, system_context, messages,
                   tracing, rec, frames, result, idCtr, runCtr, callsLeft, faultsLeft, badLeft>>

NextGroup == Group

\* Any sequence of up to MaxSeq messages, in any order.
InitGroup ==
    /\ messages \in {[a \in Agents |-> IF a = "A0" THEN s ELSE <<SystemMsg>>] :
                        s \in UNION {[1..n -> GroupInputs] : n \in 0..MaxSeq}}
    /\ rec = [k \in RecIds |-> NewRecorder]
    /\ frames = << >>
    /\ result = NoResult
    /\ idCtr = NoId
    /\ runCtr = NoRun
    /\ toolkit = [a \in Agents |-> {}]
    /\ tracing = [a \in Agents |-> None]
    /\ AsConstructed
    /\ badLeft = 0
    /\ callsLeft = 0
    /\ faultsLeft = 0

SpecGroup == InitGroup /\ [][NextGroup]_vars

----------------------------------------------------------------------------
(* Properties *)

\* The history of the agent run() is called on.
History == messages["A0"]

RootFrame == frames[Root]
Returned == result.status = "returned"
\* Between iterations (the frame awaits the model) or after run() returned.
Quiescent == Root \in DOMAIN frames /\ RootFrame.pc \in {"model", "done"}

Turns(h) == {i \in 1..Len(h) : h[i].role = "assistant" /\ Len(h[i].calls) > 0}

\* tool_call_ids of the tool entries that follow position i - 1 contiguously.
RECURSIVE ToolRun(_, _)
ToolRun(h, i) ==
    IF i > Len(h) \/ h[i].role # "tool" THEN << >>
    ELSE <<h[i].id>> \o ToolRun(h, i + 1)

Ids(calls) == [j \in 1..Len(calls) |-> calls[j].id]
Range(s) == {s[j] : j \in 1..Len(s)}
IsPrefix(s, t) == Len(s) <= Len(t) /\ \A j \in 1..Len(s) : s[j] = t[j]
Increasing(s) == \A j \in 1..Len(s) : \A l \in 1..Len(s) : j < l => s[j] < s[l]

RECURSIVE Select(_, _, _)
Select(calls, bad, i) ==
    IF i > Len(calls) THEN << >>
    ELSE (IF (calls[i].args = "malformed") = bad THEN <<calls[i].id>> ELSE << >>)
         \o Select(calls, bad, i + 1)

\* C1: run() never raises out of the iteration loop, and every result with
\* success = false carries a reason or an error_type discriminator.
C1_NeverRaises ==
    /\ result.status # "raised"
    /\ (Returned /\ ~result.success) => (result.reason # None \/ result.error_type # None)

\* A tool batch was requested and the processing of the response failed:
\* run() came back with the unexpected_error result.
C1_Witness ==
    /\ Returned /\ ~result.success
    /\ result.error_type = "unexpected_error"
    /\ Turns(History) # {}

\* C2: while the traced top-level run() is in progress, nothing a delegated
\* run does on the shared recorder removes an event recorded earlier in the
\* run: each step leaves the earlier event list a prefix of the later one.
C2_EventsKept ==
    [][(Root \in DOMAIN frames /\ RootFrame.pc # "done" /\ tracing["A0"] = "K0")
          => IsPrefix(rec["K0"].events, rec["K0"].events')]_vars

\* C3: between iterations and after run() returns, every assistant entry
\* with tool invocations is followed contiguously by exactly one tool response
\* per invocation, matched by tool_call_id.
C3_BlocksComplete ==
    Quiescent =>
        \A i \in Turns(History) :
            LET got == ToolRun(History, i + 1)
            IN  /\ Len(got) = Len(History[i].calls)
                /\ Range(got) = Range(Ids(History[i].calls))

\* C4 as stated: the responses of a batch stand in the request order of the
\* calls (the model numbers its calls in request order), malformed or not.
C4_RequestOrder ==
    \A i \in Turns(History) : Increasing(ToolRun(History, i + 1))

\* C4 amended: the responses of the calls with malformed arguments come
\* first, in request order; the responses of the dispatched calls follow in
\* request order, whatever the order of completion and whether they failed.
C4_ParseThenRequestOrder ==
    \A i \in Turns(History) :
        LET calls == History[i].calls
            got == ToolRun(History, i + 1)
        IN  /\ IsPrefix(got, Select(calls, TRUE, 1) \o Select(calls, FALSE, 1))
            /\ IsPrefix(Select(calls, TRUE, 1), got)

\* Two dispatched calls completed in the reverse of the request order and
\* both responses are in the history.
C4_Witness ==
    /\ Quiescent
    /\ RootFrame.order = <<2, 1>>
    /\ \E i \in Turns(History) :
          History[i].calls = RootFrame.batch /\ Len(ToolRun(History, i + 1)) = 2

----------------------------------------------------------------------------
(* The delegation chain A0 -> A1 -> A2 *)

TraceEvents == rec["K0"].events

ChainIndex(a) == CASE a = "A0" -> 0 [] a = "A1" -> 1 [] OTHER -> 2
ChainParent(a) == CASE a = "A0" -> None [] a = "A1" -> "A0" [] OTHER -> "A1"

\* Every tool turn so far, of every agent, requested a single call.
Sequential ==
    \A a \in Agents : \A i \in Turns(messages[a]) : Len(messages[a][i].calls) = 1

\* The recorder has started no run but the coordinator's.
OneRun == runCtr <= 1

\* C5: in the sequential chain A0 -> A1 -> A2 on one recorder, every event
\* of agent_i reports delegation_depth i.
C5_DepthInChain ==
    Sequential => \A j \in 1..Len(TraceEvents) :
                     TraceEvents[j].depth = ChainIndex(TraceEvents[j].agent)

\* C6: in the sequential chain A0 -> A1 -> A2 on one recorder, while the
\* recorder holds the one run of the coordinator, every event of agent_i
\* reports agent_(i-1) as its parent, and no parent for agent_0.
C6_ParentInChain ==
    (Sequential /\ OneRun) =>
        \A j \in 1..Len(TraceEvents) :
            TraceEvents[j].parent = ChainParent(TraceEvents[j].agent)

CalledNames(calls) == {calls[j].name : j \in 1..Len(calls)}

\* The coordinator's one tool turn asked its two delegates in one batch and
\* neither delegate has requested a tool.
ConcurrentPair ==
    /\ tracing["A0"] = "K0"
    /\ OneRun
    /\ Cardinality(Turns(History)) = 1
    /\ \A i \in Turns(History) :
          Len(History[i].calls) = 2 /\ CalledNames(History[i].calls) = {"ask_1", "ask_2"}
    /\ Turns(messages["A1"]) = {} /\ Turns(messages["A2"]) = {}

\* C7: when the coordinator asks two distinct delegates in one batch, all
\* events of both delegates report depth 1 and the coordinator as parent, and
\* the coordinator's agent_delegate and delegation_end events report depth 0.
C7_ConcurrentDelegates ==
    ConcurrentPair =>
        \A j \in 1..Len(TraceEvents) :
            LET e == TraceEvents[j]
            IN  /\ e.agent \in {"A1", "A2"} => (e.depth = 1 /\ e.parent = "A0")
                /\ (e.agent = "A0" /\ e.type \in {"agent_delegate", "delegation_end"})
                      => e.depth = 0

----------------------------------------------------------------------------
(* Termination by tools and by the iteration limit *)

\* The last tool turn of the history is the batch the frame holds.
LastTurn == CHOOSE i \in Turns(History) : \A j \in Turns(History) : j <= i
InLastBatch == Turns(History) # {} /\ History[LastTurn].calls = RootFrame.batch

Registered(c) == c.name \in toolkit["A0"]
Terminating(c) == Registered(c) /\ ToolDef(c.name).terminate

\* Dispatched calls of the frame's batch whose terminating tool came back
\* without error.
Succeeded(fr) ==
    {k \in 1..Len(fr.valid) :
        /\ Terminating(ValidCall(fr, k))
        /\ fr.tstat[k] = "done" /\ fr.tres[k].kind = "result" /\ fr.tres[k].error = None}

Min(S) == CHOOSE x \in S : \A y \in S : x <= y

\* C8: a turn requests a terminating and a non-terminating tool and the
\* terminating tool succeeds: every call of the turn has its response in the
\* history and run() returns in that iteration with success, the terminating
\* tool's content and its name as terminated_by_tool.
C8_TerminatesWithAllResponses ==
    LET fr == RootFrame
    IN  (/\ Returned /\ InLastBatch
         /\ Succeeded(fr) # {}
         /\ \E j \in 1..Len(fr.batch) : Registered(fr.batch[j]) /\ ~Terminating(fr.batch[j]))
        => /\ Range(ToolRun(History, LastTurn + 1)) = Range(Ids(fr.batch))
           /\ result.success
           /\ result.terminated_by = ValidCall(fr, Min(Succeeded(fr))).name
           /\ result.content = fr.tres[Min(Succeeded(fr))].content
           /\ result.iterations = fr.iteration

\* Positions of the well-formed calls to terminating tools, and those among
\* them whose tool body does not throw.
TermCalls(calls) == {j \in 1..Len(calls) : Terminating(calls[j]) /\ calls[j].args = "ok"}
Winners(calls) == {j \in TermCalls(calls) : ToolDef(calls[j].name).returns[1] # "raise"}

\* C9: a turn requests several terminating tools: when run() has returned,
\* every call of the turn has its response in the history, and the run ended
\* on the first terminating tool in request order that executes without
\* error (on none of them when all fail).
C9_FirstTerminatorWins ==
    Returned =>
        \A i \in Turns(History) :
            LET calls == History[i].calls
            IN  Cardinality(TermCalls(calls)) >= 2 =>
                  /\ Range(ToolRun(History, i + 1)) = Range(Ids(calls))
                  /\ Winners(calls) # {} =>
                        /\ i = LastTurn
                        /\ result.success
                        /\ result.terminated_by = calls[Min(Winners(calls))].name
                        /\ result.content = ToolDef(calls[Min(Winners(calls))].name).returns
                  /\ (Winners(calls) = {} /\ i = LastTurn) => result.terminated_by = None

\* Every answer of the model so far was a batch of well-formed calls to
\* registered non-terminating tools, and no model call failed.
OnlyToolTurns ==
    /\ faultsLeft = MaxFaults
    /\ \A i \in 1..Len(History) :
          History[i].role = "assistant" =>
              /\ Len(History[i].calls) > 0
              /\ \A j \in 1..Len(History[i].calls) :
                    /\ History[i].calls[j].args = "ok"
                    /\ Registered(History[i].calls[j])
                    /\ ~Terminating(History[i].calls[j])

\* C10: the model requests non-terminating tool calls on every turn: run()
\* performs max_iterations iterations and returns success = false with
\* reason max_iterations_reached and iterations = max_iterations.
C10_MaxIterationsReached ==
    (Returned /\ OnlyToolTurns /\ RootFrame.max_retries >= 1) =>
        /\ ~result.success
        /\ result.reason = "max_iterations_reached"
        /\ result.iterations = RootFrame.max_iterations
        /\ Cardinality(Turns(History)) = RootFrame.max_iterations

----------------------------------------------------------------------------
(* The tracing reference of a delegate *)

\* The delegated runs in progress whose caller had tracing active.
TracedCalls == {f \in DOMAIN frames : f # Root /\ frames[f].traced}

LastEvent(r) == r.events[Len(r.events)]

\* C11: during a delegated call made by a traced caller the delegate's
\* tracing reference is the caller's recorder; when the call ends the
\* reference is again what it was immediately before the call, and a
\* delegation_end event from the caller to the delegate has been recorded.
C11_SwapAndRestore ==
    /\ [](\A f \in TracedCalls : tracing[frames[f].agent] = "K0")
    /\ [][\A f \in TracedCalls :
             f \notin DOMAIN frames' =>
                 /\ tracing'[frames[f].agent] = frames[f].original_tracing
                 /\ Len(rec["K0"].events') > 0
                 /\ LastEvent(rec["K0"])'.type = "delegation_end"
                 /\ LastEvent(rec["K0"])'.agent = frames[Front(f)].agent
                 /\ LastEvent(rec["K0"])'.to = frames[f].agent]_vars

\* The coordinator's one tool turn is a batch of two delegated calls (to
\* the same delegate or to two) and no delegate has requested a tool.
ConcurrentBatch ==
    /\ tracing["A0"] = "K0"
    /\ Cardinality(Turns(History)) = 1
    /\ \A i \in Turns(History) :
          /\ Len(History[i].calls) = 2
          /\ \A j \in 1..2 : IsDelegate(History[i].calls[j].name)
    /\ Turns(messages["A1"]) = {} /\ Turns(messages["A2"]) = {}

\* C12: a batch of two concurrent delegated calls: a delegate keeps the
\* recorder while one of its delegated runs is in progress, and once the batch
\* has completed no delegate (all untraced before) holds the coordinator's
\* recorder.
C12_NeverLeftAttached ==
    ConcurrentBatch =>
        /\ \A f \in TracedCalls : tracing[frames[f].agent] = "K0"
        /\ RootFrame.pc # "gather" => (tracing["A1"] = None /\ tracing["A2"] = None)

----------------------------------------------------------------------------
(* The run id of the recorder *)

\* The id start_run() gave the top-level run (the first the recorder took).
TopRunId == NoRun + 1

\* C13: from the start_run() of the traced top-level run to the return of
\* that run, every event in the recorder, of the coordinator and of its
\* delegates, carries the id of that run.
C13_RunIdOnEvents ==
    (Root \in DOMAIN frames /\ tracing["A0"] = "K0") =>
        \A j \in 1..Len(TraceEvents) : TraceEvents[j].run_id = TopRunId

\* The ids of the runs the recorder has started so far.
EarlierRunIds == (NoRun + 1)..runCtr

\* C14: start_run() without a custom id empties the event list, the
\* operation stack and the call-id side table, resets the depth to 0 and the
\* parent to null, and sets a run id no earlier run of the recorder had.
C14_StartRunClears ==
    [][KitStartRun =>
          /\ Kit'.events = << >> /\ Kit'.stack = << >> /\ Kit'.starts = {}
          /\ Kit'.depth = 0 /\ Kit'.parent = None
          /\ Kit'.run_id # NoRun /\ Kit'.run_id \notin EarlierRunIds]_vars

\* A second run has just been started on a recorder constructed with a
\* per-run file pattern.
C14_Witness ==
    /\ runCtr = MaxRuns /\ Kit.run_id = runCtr
    /\ Kit.events = << >>
    /\ Kit.output_file = <<"trace", runCtr>>

\* C15: end_run() sets the run id to null and changes nothing else of the
\* recorder: events, operation stack, call-id side table, depth, parent and
\* resolved output path stay as they were.
C15_EndRunFrame ==
    [][KitEndRun =>
          /\ Kit'.run_id = NoRun
          /\ Kit'.events = Kit.events /\ Kit'.stack = Kit.stack
          /\ Kit'.starts = Kit.starts /\ Kit'.depth = Kit.depth
          /\ Kit'.parent = Kit.parent /\ Kit'.output_file = Kit.output_file
          /\ Kit'.pattern = Kit.pattern]_vars

\* A run that recorded a pending call and an open delegation was ended: its
\* events, stack entry, side-table entry, depth, parent and path are there.
C15_Witness ==
    /\ Kit.run_id = NoRun
    /\ Len(Kit.events) > 0 /\ \A j \in 1..Len(Kit.events) : Kit.events[j].run_id # NoRun
    /\ Kit.stack # << >> /\ Kit.starts # {} /\ Kit.depth > 0 /\ Kit.parent # None
    /\ Kit.output_file # <<None>>


----------------------------------------------------------------------------
(* The tool registry *)

Executed == outcome.op = "execute_tool"
Text(x) == <<"str", x>>

\* C16: execute_tool never raises; for a name that is not registered the
\* result has a non-null error and empty-string content; for a registered
\* tool whose body throws, the error is the exception's text and the content
\* the empty string; otherwise the error is null and the content is the
\* tool's return value.
C16_ExecuteToolResult ==
    Executed =>
        LET t == outcome.name
            r == outcome.res
            returns == IF t \in toolkit["A0"] THEN ToolDef(stored["A0"].callable[t]).returns
                       ELSE <<"none", "">>
        IN  /\ ~outcome.raised
            /\ t \notin toolkit["A0"] => r.error # None /\ r.content = Text("")
            /\ t \in toolkit["A0"] /\ returns[1] = "raise" =>
                   r.error = returns[2] /\ r.content = Text("")
            /\ t \in toolkit["A0"] /\ returns[1] # "raise" =>
                   r.error = None /\ r.content = returns

\* A registered tool that returned None has been executed.
C16_Witness ==
    /\ Executed
    /\ outcome.name = "t_none"
    /\ "t_none" \in toolkit["A0"]

\* C17: every result of execute_tool (success, exception, not found) says in
\* its metadata whether the call is a termination signal.
C17_TerminateInMetadata ==
    Executed => outcome.res.meta \in {"true", "false"}

C17_Witness ==
    /\ Executed
    /\ outcome.res.error # None

Unsupported == {f \in Functions : ~Signature(f).supported}

\* C18: add_tool with a function that has a parameter of an unsupported
\* annotated type raises a configuration error and leaves the registry as it
\* was before the call: the name is not executable and has neither a
\* terminate flag nor a schema because of this call.
C18_AddToolRejects ==
    [][\A f \in Unsupported, name \in CustomNames, flag \in BOOLEAN :
          (outcome'.op = "add_tool" /\ AddTool(f, name, flag)) =>
              /\ outcome'.raised
              /\ toolkit' = toolkit
              /\ flags' = flags
              /\ schemas' = schemas
              /\ stored' = stored]_vars

\* add_tool has raised for a name that was not registered before.
C18_Witness ==
    /\ outcome.op = "add_tool"
    /\ outcome.raised
    /\ outcome.name \notin schemas["A0"]

----------------------------------------------------------------------------
(* The trimmed view *)

HasCalls(m) == m.role = "assistant" /\ m.calls # << >>

\* Every assistant message with tool calls is immediately followed by the
\* responses to its calls.
WellFormed(h) ==
    \A i \in 1..Len(h) :
        HasCalls(h[i]) =>
            LET n == Len(h[i].calls)
            IN  /\ i + n <= Len(h)
                /\ \A k \in 1..n : h[i + k].role = "tool"
                /\ {h[i + k].id : k \in 1..n} = Range(Ids(h[i].calls))

\* The responses in h to the calls of the assistant message at position i.
ResponsesTo(h, i) ==
    {j \in (i + 1)..Len(h) : h[j].role = "tool" /\ h[j].id \in Range(Ids(h[i].calls))}

\* The view that is in `outcome` was made from the history as it is now.
ViewTaken ==
    /\ outcome.op = "_prepare_messages"
    /\ outcome.res = PrepareMessages("A0")

\* C19: for a history in which every assistant tool-call message is
\* immediately followed by its tool responses, the trimmed view holds an
\* assistant message with tool calls if and only if it holds every tool
\* response to that message.
C19_GroupsNotSplit ==
    [][Prepare /\ WellFormed(messages["A0"]) =>
          LET h == messages["A0"]
              view == outcome'.res
          IN  \A i \in 1..Len(h) :
                  HasCalls(h[i]) =>
                      (h[i] \in Range(view) <=>
                           \A j \in ResponsesTo(h, i) : h[j] \in Range(view))]_vars

\* A view of a well-formed history that keeps one tool-call group and drops
\* an older one.
C19_Witness ==
    /\ ViewTaken
    /\ WellFormed(messages["A0"])
    /\ \E i, j \in 1..Len(messages["A0"]) :
          /\ HasCalls(messages["A0"][i]) /\ messages["A0"][i] \notin Range(outcome.res)
          /\ HasCalls(messages["A0"][j]) /\ messages["A0"][j] \in Range(outcome.res)

\* C20: for every history and every context window, the view returned by
\* _prepare_messages has the history's system message as its first entry,
\* and that entry occurs exactly once.
C20_SystemMessageFirst ==
    [][Prepare =>
          LET h == messages["A0"]
              view == outcome'.res
          IN  /\ view # << >>
              /\ view[1] = h[1]
              /\ h[1].role = "system"
              /\ Cardinality({j \in 1..Len(view) : view[j].role = "system"}) = 1]_vars

\* A view with a window set that dropped the oldest messages and kept others.
C20_Witness ==
    /\ ViewTaken
    /\ context_window["A0"] # NoWindow
    /\ Len(outcome.res) > 1
    /\ Len(outcome.res) < Len(messages["A0"])

----------------------------------------------------------------------------
(* The budget of the trimmed view *)

WindowSet == context_window["A0"] # NoWindow

\* What the window leaves for the conversation.
Available ==
    context_window["A0"] - EstimateMessageTokens(<<messages["A0"][1]>>)
        - ToolSchemaTokens("A0") - ResponseReserve

RECURSIVE GroupsCost(_)
GroupsCost(groups) ==
    IF groups = << >> THEN 0
    ELSE EstimateMessageTokens(Head(groups)) + GroupsCost(Tail(groups))

\* estimate(system message) + estimates of the groups of the view
\* + estimate(tool schemas) + response reserve
ViewCost(view) ==
    EstimateMessageTokens(<<view[1]>>) + GroupsCost(GroupMessages(Tail(view)))
        + ToolSchemaTokens("A0") + ResponseReserve

\* C21 as stated: whenever a context window is configured, the estimated
\* cost of the view does not exceed the window.
C21_CostWithinWindow ==
    [][Prepare /\ WindowSet => ViewCost(outcome'.res) <= context_window["A0"]]_vars

\* C21, amended: whenever the configured window exceeds the fixed costs
\* (system message, tool schemas, response reserve), the estimated cost of
\* the view does not exceed the window.
C21_CostWithinWindowWhenRoom ==
    [][Prepare /\ WindowSet /\ Available > 0 =>
          ViewCost(outcome'.res) <= context_window["A0"]]_vars

\* A view taken with room left that kept at least two messages of the
\* conversation and dropped others.
C21_Witness ==
    /\ ViewTaken
    /\ WindowSet /\ Available > 0
    /\ Len(outcome.res) >= 3
    /\ Len(outcome.res) < Len(messages["A0"])

\* C22: with a context window configured, the view always contains the most
\* recent message of the history, whatever its size or that of its group.
C22_NewestKept ==
    [][Prepare /\ WindowSet =>
          LET h == messages["A0"]
              view == outcome'.res
          IN  view[Len(view)] = h[Len(h)] /\ (Len(h) > 1 => Len(view) > 1)]_vars

\* A view taken with room left whose newest group was larger than the room:
\* only the system message is left.
C22_Witness ==
    /\ ViewTaken
    /\ WindowSet /\ Available > 0
    /\ Len(messages["A0"]) > 1
    /\ Len(outcome.res) = 1

\* The suffix of a sequence from position k on.
Suffix(seq, k) == SubSeq(seq, k, Len(seq))

\* The suffixes of the group sequence whose cumulative cost fits the budget,
\* given by the position of their oldest group (Len + 1: the empty suffix).
FittingSuffixes(groups, budget) ==
    {k \in 1..(Len(groups) + 1) : GroupsCost(Suffix(groups, k)) <= budget}

\* The oldest group of the longest suffix that fits.
OldestFitting(groups, budget) == Min(FittingSuffixes(groups, budget) \cup {Len(groups) + 1})

\* The position in the conversation of the first message of group k.
RECURSIVE GroupStart(_, _)
GroupStart(groups, k) ==
    IF k = 1 THEN 1 ELSE GroupStart(groups, k - 1) + Len(groups[k - 1])

\* The conversation part of the view taken by this step is the longest
\* suffix of the history's groups that fits the budget.
ViewIsLongestFittingSuffix ==
    LET conversation == Tail(messages["A0"])
        groups == GroupMessages(conversation)
    IN  Tail(outcome'.res) =
            Suffix(conversation, GroupStart(groups, OldestFitting(groups, Available)))

\* C23 as stated: the conversation part of the trimmed view is exactly the
\* longest suffix of the history's group sequence whose cumulative estimated
\* cost fits the available budget.
C23_LongestFittingSuffix ==
    [][Prepare /\ WindowSet => ViewIsLongestFittingSuffix]_vars

\* C23, amended: whenever the window leaves room (available > 0), the
\* conversation part of the view is exactly the longest suffix of the
\* history's group sequence whose cumulative estimated cost fits the
\* available budget.
C23_LongestFittingSuffixWhenRoom ==
    [][Prepare /\ WindowSet /\ Available > 0 => ViewIsLongestFittingSuffix]_vars

\* A view taken with room left that keeps two groups or more and drops two
\* groups or more.
C23_Witness ==
    /\ ViewTaken
    /\ WindowSet /\ Available > 0
    /\ Len(GroupMessages(Tail(outcome.res))) >= 2
    /\ Len(GroupMessages(Tail(messages["A0"]))) >= Len(GroupMessages(Tail(outcome.res))) + 2

\* The whole history fits the budget.
HistoryFits == GroupsCost(GroupMessages(Tail(messages["A0"]))) <= Available

\* C24: _prepare_messages never mutates the stored history and never returns
\* a view longer than the history; when the whole history fits the budget
\* the view equals the history, so preparing the view of a history that is
\* such a view already changes nothing.
C24_ViewOfFittingHistory ==
    [][Prepare =>
          /\ messages' = messages
          /\ Len(outcome'.res) <= Len(messages["A0"])
          /\ WindowSet /\ HistoryFits => outcome'.res = messages["A0"]]_vars

\* A whole conversation of several groups has been kept by a window that
\* leaves room.
C24_Witness ==
    /\ ViewTaken
    /\ WindowSet /\ Available > 0
    /\ HistoryFits
    /\ Len(GroupMessages(Tail(messages["A0"]))) >= 2
    /\ outcome.res = messages["A0"]

----------------------------------------------------------------------------
(* Retries of the model call *)

\* The calls the client of the top-level run has recorded.
Log == IF Root \in DOMAIN frames THEN RootFrame.log ELSE << >>

RateLimitSignal(c) ==
    c.kind = "error" /\ ~c.error.json
        /\ ("rate_limit" \in c.error.words \/ "429" \in c.error.words)
TimeoutSignal(c) ==
    c.kind = "error" /\ ~c.error.json /\ ~RateLimitSignal(c) /\ "timeout" \in c.error.words
Permanent(c) ==
    c.kind = "error" /\ ~c.error.json /\ ~RateLimitSignal(c) /\ ~TimeoutSignal(c)

\* C25: when a model call raises an exception that is neither malformed
\* tool-call JSON nor a rate-limit signal nor a timeout signal, run() returns
\* failure with error_type "api_error" and issues no further model call,
\* whatever max_retries is and however many retries the iteration has used.
C25_PermanentFailureIsFinal ==
    \A i \in 1..Len(Log) :
        Permanent(Log[i]) =>
            /\ i = Len(Log)
            /\ RootFrame.pc = "done"
            /\ Returned /\ ~result.success
            /\ result.error_type = "api_error"
            /\ result.iterations = Log[i].iteration

\* A permanent failure on the call that retried a timeout.
C25_Witness ==
    /\ Returned
    /\ Len(Log) = 2
    /\ TimeoutSignal(Log[1])
    /\ Permanent(Log[2])
    /\ Log[1].iteration = Log[2].iteration

\* The recorded calls of iteration it.
CallsOf(it) == SelectSeq(Log, LAMBDA c : c.iteration = it)

Iterations == {Log[i].iteration : i \in 1..Len(Log)}

AllOf(calls, Signal(_)) == \A i \in 1..Len(calls) : Signal(calls[i])

\* Iteration it has seen failures of one transient class only: no call more
\* than max_retries is made, the last one allowed ends the run with that
\* class as error_type, and before it the next call is under way.
RetriedToTheLimit(it, Signal(_), class) ==
    LET calls == CallsOf(it)
    IN  AllOf(calls, Signal) =>
            /\ Len(calls) <= RootFrame.max_retries
            /\ Len(calls) = RootFrame.max_retries =>
                   /\ Returned /\ ~result.success
                   /\ result.error_type = class
                   /\ result.iterations = it
            /\ Len(calls) < RootFrame.max_retries =>
                   /\ ~Returned
                   /\ RootFrame.pc = "model"
                   /\ RootFrame.iteration = it

Answered(c) == c.kind \in {"final", "tools"}

\* In iteration it a call after transient failures of one class came back
\* with an answer: the run went on with it (the final answer was returned,
\* or the assistant's tool calls are in the history) and no later call was
\* made in the iteration.
ContinuedWithAnswer(it, Signal(_)) ==
    LET calls == CallsOf(it)
        n == Len(calls)
    IN  (n >= 2 /\ Answered(calls[n]) /\ AllOf(SubSeq(calls, 1, n - 1), Signal)) =>
            /\ n <= RootFrame.max_retries
            /\ calls[n].kind = "final" =>
                   /\ Returned /\ result.success
                   /\ result.iterations = it
                   /\ History[Len(History)].role = "assistant"
            /\ calls[n].kind = "tools" =>
                   Cardinality(Turns(History))
                       = Cardinality({i \in 1..Len(Log) : Log[i].kind = "tools"})

\* C26: if every model call of an iteration fails with a rate-limit signal
\* (a timeout signal), run() makes exactly max_retries calls in the
\* iteration and returns failure with error_type "rate_limit" ("timeout");
\* if a call within the limit succeeds, the run continues with its response.
C26_TransientRetries ==
    \A it \in Iterations :
        /\ RetriedToTheLimit(it, RateLimitSignal, "rate_limit")
        /\ RetriedToTheLimit(it, TimeoutSignal, "timeout")
        /\ ContinuedWithAnswer(it, RateLimitSignal)
        /\ ContinuedWithAnswer(it, TimeoutSignal)

\* Two rate-limited calls with max_retries = 2 have ended the run.
C26_Witness ==
    /\ Returned
    /\ RootFrame.max_retries = 2
    /\ Len(Log) = 2
    /\ RateLimitSignal(Log[1]) /\ RateLimitSignal(Log[2])
    /\ result.error_type = "rate_limit"

EmptyAnswer(c) == c.kind = "empty"

Correctives ==
    {i \in 1..Len(History) : History[i] = UserMsg("corrective")}

\* C27: for a model that on every call returns neither content nor tool
\* calls (and no refusal), run() makes exactly max_retries calls, appends one
\* corrective user message before each retry (max_retries - 1 in all) and
\* returns failure with reason "no_content_after_retries".
C27_EmptyAnswersRetried ==
    (Len(Log) >= 1 /\ AllOf(Log, EmptyAnswer)) =>
        /\ Len(Log) <= RootFrame.max_retries
        /\ Len(Log) = RootFrame.max_retries =>
               /\ Returned /\ ~result.success
               /\ result.reason = "no_content_after_retries"
               /\ Cardinality(Correctives) = RootFrame.max_retries - 1
        /\ Len(Log) < RootFrame.max_retries =>
               /\ ~Returned
               /\ RootFrame.pc = "model"
               /\ Cardinality(Correctives) = Len(Log)
               /\ Len(History) \in Correctives

\* Two empty answers with max_retries = 2 have ended the run.
C27_Witness ==
    /\ Returned
    /\ RootFrame.max_retries = 2
    /\ Len(Log) = 2
    /\ AllOf(Log, EmptyAnswer)
    /\ Cardinality(Correctives) = 1

\* C28: a response with neither content nor tool calls that carries a
\* refusal ends the run at once: run() returns success=false with reason
\* "refusal" and the refusal text as content, makes no further model call
\* and appends no corrective message.
C28_RefusalIsFinal ==
    [][(Len(Log') = Len(Log) + 1 /\ Log'[Len(Log')].kind = "refusal") =>
          /\ result'.status = "returned" /\ ~result'.success
          /\ result'.reason = "refusal"
          /\ result'.content = <<"str", "refused">>
          /\ frames'[Root].pc = "done"
          /\ messages' = messages]_vars

\* A refusal on the retry that followed an empty answer.
C28_Witness ==
    /\ Returned
    /\ Len(Log) = 2
    /\ EmptyAnswer(Log[1])
    /\ Log[2].kind = "refusal"
    /\ result.reason = "refusal"

----------------------------------------------------------------------------
(* The trace of one invocation of run() *)

\* The events this step has recorded: what was appended, or, when the step
\* started a run, everything in the emptied list.
StepEvents ==
    IF IsPrefix(TraceEvents, TraceEvents')
    THEN SubSeq(TraceEvents', Len(TraceEvents) + 1, Len(TraceEvents'))
    ELSE TraceEvents'

\* run() is entered in this step as frame f, with tracing active.
EntersTraced(f) ==
    /\ f \notin DOMAIN frames
    /\ IF f = Root THEN tracing["A0"] # None ELSE frames'[f].traced

\* The traced invocation f of run() returns in this step.
ReturnsTraced(f) ==
    IF f = Root
    THEN /\ tracing["A0"] # None
         /\ frames'[Root].pc = "done"
         /\ Root \in DOMAIN frames => frames[Root].pc # "done"
    ELSE /\ f \in DOMAIN frames /\ frames[f].traced
         /\ f \notin DOMAIN frames'

EventsOf(evs, type, a) == {i \in 1..Len(evs) : evs[i].type = type /\ evs[i].agent = a}

\* The step records one agent_end of agent a, with the result's success flag
\* when the result is known, nothing of a after it, and ends the run.
OneAgentEnd(f, a) ==
    /\ Cardinality(EventsOf(StepEvents, "agent_end", a)) = 1
    /\ \A i \in EventsOf(StepEvents, "agent_end", a) :
          /\ f = Root => StepEvents[i].success = result'.success
          /\ \A j \in (i + 1)..Len(StepEvents) : StepEvents[j].agent # a
    /\ rec'["K0"].run_id = NoRun

\* C29: with tracing active, every invocation of run() records exactly one
\* agent_start when it is entered and, on whatever path it returns, exactly
\* one agent_end with the success flag of the returned result, followed by
\* end_run(); it records nothing after its agent_end.
C29_OneStartOneEnd ==
    [][/\ \A f \in DOMAIN frames' :
             EntersTraced(f) =>
                 Cardinality(EventsOf(StepEvents, "agent_start", frames'[f].agent)) = 1
       /\ \A f \in (DOMAIN frames) \cup {Root} :
             (f \in DOMAIN frames' \cup DOMAIN frames /\ ReturnsTraced(f)) =>
                 OneAgentEnd(f, IF f = Root THEN "A0" ELSE frames[f].agent)]_vars

\* A delegated run that started under the recorder has returned without an
\* agent_end: two agent_start events of A1, one agent_end, no run of A1 left.
C29_Witness ==
    /\ \A f \in DOMAIN frames : frames[f].agent # "A1"
    /\ Cardinality(EventsOf(TraceEvents, "agent_start", "A1")) = 2
    /\ Cardinality(EventsOf(TraceEvents, "agent_end", "A1")) = 1

----------------------------------------------------------------------------
(* The trace of a hard failure *)

HardFailures == {"json_decode_error", "rate_limit", "timeout", "api_error"}

\* What the invocation f of run() returns in this step, where it can be seen:
\* the result of the root run, or the content handed to the awaiting caller.
ReturnedErrorType(f) ==
    IF f = Root THEN result'.error_type
    ELSE LET p == SubSeq(f, 1, Len(f) - 1)
             k == f[Len(f)]
             c == frames'[p].tres[k].content
         IN  IF c[1] = "str" THEN c[2] ELSE None

\* The step records an error event of agent a, then at once its agent_end
\* with success false, and ends the run.
ErrorThenAgentEnd(a) ==
    /\ \E i \in 1..(Len(StepEvents) - 1) :
          /\ StepEvents[i].type = "error" /\ StepEvents[i].agent = a
          /\ StepEvents[i + 1].type = "agent_end" /\ StepEvents[i + 1].agent = a
          /\ ~StepEvents[i + 1].success
    /\ Cardinality(EventsOf(StepEvents, "error", a)) = 1
    /\ rec'["K0"].run_id = NoRun

\* C30: with tracing active, every invocation of run() that returns a hard
\* failure (retries exhausted on malformed JSON, on rate limiting or on
\* timeouts, or any other API exception) has recorded, before the result is
\* returned, an error event, then an agent_end with success false, and has
\* ended the run.
C30_HardFailureTraced ==
    [][\A f \in (DOMAIN frames) \cup {Root} :
          (ReturnsTraced(f) /\ ReturnedErrorType(f) \in HardFailures) =>
              ErrorThenAgentEnd(IF f = Root THEN "A0" ELSE frames[f].agent)]_vars

\* Both delegated runs of A1 have returned an API failure to the coordinator
\* and the trace holds the error event of one of them only.
C30_Witness ==
    /\ Root \in DOMAIN frames /\ RootFrame.pc = "gather"
    /\ Len(RootFrame.tres) = 2
    /\ \A k \in 1..2 : RootFrame.tstat[k] = "done"
                       /\ RootFrame.tres[k].content = <<"str", "api_error">>
    /\ \A f \in DOMAIN frames : frames[f].agent # "A1"
    /\ Cardinality(EventsOf(TraceEvents, "agent_start", "A1")) = 2
    /\ Cardinality(EventsOf(TraceEvents, "error", "A1")) = 1

----------------------------------------------------------------------------
(* Batches with malformed arguments *)

Malformed(c) == c.args = "malformed"
WellFormedCall(c) == c.args = "ok"

\* The turns whose batch mixes well-formed and malformed arguments.
MixedTurns(h) ==
    {i \in Turns(h) : /\ \E k \in 1..Len(h[i].calls) : Malformed(h[i].calls[k])
                      /\ \E k \in 1..Len(h[i].calls) : WellFormedCall(h[i].calls[k])}

\* The positions of the responses to call c in the block that follows turn i.
Answers(h, i, c) ==
    {j \in (i + 1)..(i + Len(ToolRun(h, i + 1))) : h[j].id = c.id}

\* The run gave up while it was handling the batch of turn i.
AbortedAt(h, i) ==
    /\ Returned /\ result.error_type = "unexpected_error"
    /\ \A j \in Turns(h) : j <= i

\* C31: in a batch that mixes well-formed and malformed arguments, each
\* malformed call gets exactly one inline error response and is never
\* executed, every well-formed call of the batch is executed and answered,
\* and the iteration is not aborted.
C31_MixedBatchRecovered ==
    Quiescent =>
        \A i \in MixedTurns(History) :
            /\ \A k \in 1..Len(History[i].calls) :
                  LET c == History[i].calls[k]
                  IN  /\ Malformed(c) =>
                            /\ Cardinality(Answers(History, i, c)) = 1
                            /\ \A j \in Answers(History, i, c) :
                                  History[j].content = <<"error", "invalid_arguments">>
                            /\ \A e \in Range(TraceEvents) :
                                  e.type = "tool_call" => e.call_id # c.id
                      /\ WellFormedCall(c) => Cardinality(Answers(History, i, c)) = 1
            /\ ~AbortedAt(History, i)

\* A mixed batch whose malformed call was answered inline and whose
\* well-formed call never ran: run() returned the unexpected_error result.
C31_Witness ==
    /\ Quiescent
    /\ \E i \in MixedTurns(History) :
          /\ AbortedAt(History, i)
          /\ Len(ToolRun(History, i + 1)) = 1
          /\ \E k \in 1..Len(History[i].calls) :
                WellFormedCall(History[i].calls[k])
                    /\ Answers(History, i, History[i].calls[k]) = {}

----------------------------------------------------------------------------
(* Registering over a name that is taken *)

\* After the step, name n holds function f with f's schema under the name n,
\* and execute_tool reports the terminate flag term for it.
RegisteredAs(n, f, term) ==
    /\ n \in toolkit'["A0"]
    /\ stored'["A0"].callable[n] = f
    /\ n \in schemas'["A0"]
    /\ stored'["A0"].schema[n] = [name |-> n, of |-> f]
    /\ TerminateFlag(flags'["A0"], n) = term

\* C32: after a tool is registered (add_tool or register_delegate, in any
\* order) under a name that is already registered, the one entry of that
\* name has the callable, the schema and the terminate flag of the latest
\* registration; a delegate registered over a terminating tool does not
\* terminate the run.
C32_LatestRegistrationWins ==
    [][/\ \A f \in Functions, name \in CustomNames, flag \in BOOLEAN :
             LET n == IF name # None THEN name ELSE DecoratedName(f)
             IN  (/\ outcome'.op = "add_tool" /\ ~outcome'.raised
                  /\ n \in toolkit["A0"]
                  /\ AddTool(f, name, flag)) =>
                     RegisteredAs(n, f, flag \/ ToolDef(f).terminate)
       /\ \A name \in CustomNames :
             LET n == IF name # None THEN name ELSE "ask_1"
             IN  (/\ outcome'.op = "register_delegate"
                  /\ n \in toolkit["A0"]
                  /\ RegisterDelegate("ask_1", name)) =>
                     RegisteredAs(n, "ask_1", FALSE)]_vars

\* The delegate registered over the terminating tool fin2 was executed and
\* its result is a termination signal.
C32_Witness ==
    /\ Executed
    /\ outcome.name = "fin2"
    /\ "fin2" \in toolkit["A0"]
    /\ stored["A0"].callable["fin2"] = "ask_1"
    /\ outcome.res.error = None
    /\ outcome.res.meta = "true"

----------------------------------------------------------------------------
(* Names, callables and schemas *)

\* C33: in every registry state the names that have a callable are the names
\* that have a schema, and each schema's function name is the name under
\* which the tool is registered and executable, also for tools decorated with
\* a custom name and found by discovery.
C33_SchemaNamesAreRegistryNames ==
    /\ toolkit["A0"] = schemas["A0"]
    /\ \A n \in schemas["A0"] : stored["A0"].schema[n].name = n

\* Discovery found the method decorated with name="lookup": its schema
\* announces it under the function's own name, and execute_tool does not find
\* a tool of that name.
C33_Witness ==
    /\ Executed
    /\ outcome.name = FunctionName("f_named")
    /\ outcome.res.error = "not_found"
    /\ "lookup" \in toolkit["A0"]
    /\ "lookup" \in schemas["A0"]
    /\ stored["A0"].callable["lookup"] = "f_named"
    /\ stored["A0"].schema["lookup"].name = FunctionName("f_named")
    /\ FunctionName("f_named") \notin toolkit["A0"]

----------------------------------------------------------------------------
(* reset() *)

\* C34: reset() leaves the history as exactly one entry, the system message
\* with the freshly resolved prompt, and changes nothing in the tracing
\* recorder (run id, events, operation stack, depth counter, parent cursor)
\* nor the agent's reference to it.
C34_ResetLeavesSystemMessage ==
    [][Reset =>
          /\ Len(messages'["A0"]) = 1
          /\ messages'["A0"][1].role = "system"
          /\ messages'["A0"][1].content = SystemPrompt("A0")
          /\ rec' = rec
          /\ tracing' = tracing]_vars

\* The agent was reset after its traced run had returned and after its
\* prompt context had been changed to bob; the events of the run are there.
C34_Witness ==
    /\ Returned
    /\ Len(History) = 1
    /\ History[1].role = "system"
    /\ History[1].content = <<"text", "bob">>
    /\ Len(TraceEvents) >= 2

----------------------------------------------------------------------------
(* Bounded work *)

\* The model calls made so far stay within the limits the caller gave.
CallsBounded ==
    Root \in DOMAIN frames =>
        /\ \A it \in Iterations : Len(CallsOf(it)) <= RootFrame.max_retries
        /\ Iterations \subseteq 1..RootFrame.max_iterations
        /\ Len(Log) <= RootFrame.max_iterations * RootFrame.max_retries

\* C35: run() always returns, and it issues at most max_iterations x
\* max_retries model calls in total: in one iteration empty responses,
\* malformed JSON, rate limits and timeouts draw on one retry counter, so no
\* mix of them allows more than max_retries calls in an iteration.
C35_ReturnsWithinBounds ==
    /\ []CallsBounded
    /\ (Root \in DOMAIN frames) ~> Returned

\* A run used up its two calls of one iteration on two different kinds of
\* failure and returned.
C35_Witness ==
    /\ Returned
    /\ RootFrame.max_retries = 2
    /\ Len(Log) = 2
    /\ EmptyAnswer(Log[1])
    /\ TimeoutSignal(Log[2])
    /\ Log[1].iteration = Log[2].iteration

\* ---------------------------------------------------------------------
\* C36: two invocations of one delegate on its single history

\* Every response in h to the calls of the assistant message at i is
\* reached from i through responses to that message only.
BlockUnbroken(h, i) ==
    \A j \in ResponsesTo(h, i) :
        \A k \in (i + 1)..j : k \in ResponsesTo(h, i)

\* Two activations of agent a exist at once.
RunsTwice(a) ==
    \E p, q \in DOMAIN frames :
        p # q /\ frames[p].agent = a /\ frames[q].agent = a

\* C36: under every interleaving of two concurrent invocations of one
\* delegate, each assistant tool-call message of the delegate's history
\* is immediately followed by its own tool responses, with no entry of
\* another invocation in between.
C36_DelegateBlocksUnbroken ==
    \A a \in Agents \ {"A0"} :
        \A i \in Turns(messages[a]) : BlockUnbroken(messages[a], i)

\* Two invocations of A1 are in progress and a tool response of A1's
\* history is separated from its assistant message by a foreign entry.
C36_Witness ==
    /\ RunsTwice("A1")
    /\ \E i \in Turns(messages["A1"]) : ~BlockUnbroken(messages["A1"], i)

\* ---------------------------------------------------------------------
\* C37: overlapping tool calls traced by call id

\* The call ids whose latest tool_call event in evs has no tool_result
\* event after it.
Outstanding(evs) ==
    {id \in KitCallIds \ {NoId} :
        \E i \in 1..Len(evs) :
            /\ evs[i].type = "tool_call" /\ evs[i].call_id = id
            /\ \A j \in (i + 1)..Len(evs) :
                  ~(evs[j].type = "tool_result" /\ evs[j].call_id = id)}

\* This step appended one event of the given type for call id `id`.
KitTraced(type, id) ==
    /\ Len(Kit'.events) = Len(Kit.events) + 1
    /\ Kit'.events[Len(Kit'.events)].type = type
    /\ Kit'.events[Len(Kit'.events)].call_id = id

StartsAndEndsById ==
    \A id \in KitCallIds \ {NoId} :
        /\ KitTraced("tool_call", id) =>
              /\ Kit'.starts = Kit.starts \cup {id}
              /\ Kit'.stack = Kit.stack
        /\ (KitTraced("tool_result", id) /\ id \in Kit.starts) =>
              /\ Kit'.starts = Kit.starts \ {id}
              /\ Kit'.stack = Kit.stack
              /\ Kit'.events[Len(Kit'.events)].elapsed

\* C37: tool calls started with a call id of their own may start and
\* end in any order.  A start with an id adds that id to the side table,
\* an end removes exactly the entry of its id, and neither pushes or
\* pops the operation stack; the side table holds exactly the ids
\* started and not yet ended, so it is empty once all have ended.
C37_CallsMatchedById ==
    /\ [](Kit.starts = Outstanding(Kit.events))
    /\ [][StartsAndEndsById]_vars

\* Two calls were started with ids and the one started first has ended
\* first, while the other is outstanding.
C37_Witness ==
    /\ Kit.starts = {NoId + 2}
    /\ \E i, j, k \in 1..Len(Kit.events) :
          /\ i < j /\ j < k
          /\ Kit.events[i].type = "tool_call" /\ Kit.events[i].call_id = NoId + 1
          /\ Kit.events[j].type = "tool_call" /\ Kit.events[j].call_id = NoId + 2
          /\ Kit.events[k].type = "tool_result" /\ Kit.events[k].call_id = NoId + 1

\* ---------------------------------------------------------------------
\* C38: histories only grow, and only by their own agent

\* t is s with entries appended, leaving aside the content of the system
\* entry.
GrownFrom(s, t) ==
    /\ Len(s) <= Len(t)
    /\ \A j \in 2..Len(s) : t[j] = s[j]
    /\ [t[1] EXCEPT !.content = s[1].content] = s[1]

\* A delegated run is in progress below the top-level run.
Delegating == \E f \in DOMAIN frames : f # Root

\* The tool responses this step appended to the history of a.
AppendedResponses(a) ==
    {j \in (Len(messages[a]) + 1)..Len(messages'[a]) : messages'[a][j].role = "tool"}

HistoryStep ==
    /\ \A a \in Agents : GrownFrom(messages[a], messages'[a])
    /\ Delegating => messages'["A0"] = messages["A0"]
    /\ \A i, j \in AppendedResponses("A0") :
          messages'["A0"][i].id = messages'["A0"][j].id => i = j

\* C38: during run() every step leaves each history as a prefix of the
\* next one, apart from the content of the system entry.  While a delegated
\* run is in progress the coordinator's history does not change; what a
\* delegation adds to it is the one tool response per call that the
\* coordinator appends after the batch.
C38_AppendOnlyHistories ==
    [][HistoryStep]_vars

\* The coordinator has appended the answer of a delegated run, which wrote
\* its own turn into the delegate's history.
C38_Witness ==
    /\ ~Delegating
    /\ \E j \in 1..Len(History) : History[j].role = "tool" /\ History[j].name = "ask_1"
    /\ \E j \in 1..Len(messages["A1"]) : messages["A1"][j].role = "assistant"

\* ---------------------------------------------------------------------
\* C39: the recorder at rest after a run with sequential delegations

AtRest(r) ==
    /\ r.stack = << >>
    /\ r.starts = {}
    /\ r.depth = 0
    /\ r.parent = None
    /\ r.run_id = NoRun

\* C39: once a traced top-level run() whose tool turns, at every depth,
\* requested one call each has returned, the recorder's stack and call-id
\* side table are empty, its depth is 0 and it has neither parent nor run
\* id; and the depth is negative in no reachable state.
C39_RecorderAtRest ==
    /\ \A k \in RecIds : rec[k].depth >= 0
    /\ (Returned /\ Sequential /\ tracing["A0"] = "K0") => AtRest(rec["K0"])

\* A traced run with a delegation two deep has returned.
C39_Witness ==
    /\ Returned /\ Sequential /\ tracing["A0"] = "K0"
    /\ \E j \in 1..Len(rec["K0"].events) :
          rec["K0"].events[j].type = "delegation_end" /\ rec["K0"].events[j].agent = "A1"

\* ---------------------------------------------------------------------
\* C40: the groups of _group_messages

Grouped == outcome.op = "_group_messages"

\* The positions of the sequence after which a group ends (0 before the
\* first group).
RECURSIVE GroupEnds(_)
GroupEnds(groups) ==
    IF groups = << >> THEN {0}
    ELSE LET front == SubSeq(groups, 1, Len(groups) - 1)
         IN  GroupEnds(front) \cup {Len(Flatten(front)) + Len(groups[Len(groups)])}

\* Positions i..j of the sequence are exactly one of the groups.
OneGroup(groups, i, j) ==
    /\ i - 1 \in GroupEnds(groups)
    /\ j \in GroupEnds(groups)
    /\ \A b \in GroupEnds(groups) : ~(i - 1 < b /\ b < j)

\* The last of the tool responses that follow position i without a gap
\* (i itself when none follows).
LastFollowingResponse(h, i) ==
    CHOOSE j \in i..Len(h) :
        /\ \A k \in (i + 1)..j : h[k].role = "tool"
        /\ (j = Len(h) \/ h[j + 1].role # "tool")

\* C40: for every message sequence, the groups of _group_messages
\* concatenated in order are the sequence itself, and an assistant message
\* with tool calls together with all the tool responses that immediately
\* follow it is one group.
C40_GroupsPartitionSequence ==
    Grouped =>
        LET h == messages["A0"]
            groups == outcome.res
        IN  /\ Flatten(groups) = h
            /\ \A g \in 1..Len(groups) : groups[g] # << >>
            /\ \A i \in 1..Len(h) :
                  HasCalls(h[i]) => OneGroup(groups, i, LastFollowingResponse(h, i))

\* A grouped sequence in which an assistant message with two calls is
\* followed by both responses and then by a message that is not a response.
C40_Witness ==
    /\ Grouped
    /\ \E i \in 1..(Len(messages["A0"]) - 3) :
          /\ HasCalls(messages["A0"][i]) /\ Len(messages["A0"][i].calls) = 2
          /\ messages["A0"][i + 1].role = "tool"
          /\ messages["A0"][i + 2].role = "tool"
          /\ messages["A0"][i + 3].role # "tool"

====
